---- MODULE Spec2Model ----
(***************************************************************************)
(* Model of the validation / sanitization pipeline of the GSAP Block       *)
(* Animator plugin: Property_Validator, Animation_Validator,               *)
(* Animation_Config, the animation strategies (PHP), and the editor-side   *)
(* validators (TypeScript).                                                *)
(*                                                                         *)
(* Strings that the code inspects with a regular expression or with        *)
(* is_numeric are sequences of one-character strings.  PHP values are      *)
(* records tagged with their PHP type.  Floats are exact decimals          *)
(* [m, e] standing for m * 10^e.                                           *)
(***************************************************************************)
EXTENDS Integers, Sequences, FiniteSets, TLC

VARIABLES
    pc,     \* what has been done to the input so far
    impl,   \* the sanitizer that produced out
    key,    \* the property key
    raw,    \* the raw value handed to the sanitizer
    out,    \* the value the sanitizer returned
    prev,   \* the value returned by the previous pass
    arg,    \* the configuration array handed to a validator
    result, \* what the validator returned
    blocks,             \* the persisted blocks of the page
    dom,                \* the data attributes of the rendered elements
    activeAnimations,   \* AnimationService.activeAnimations
    timelines           \* the timelines the animation engine has created

vars == <<pc, impl, key, raw, out, prev, arg, result,
          blocks, dom, activeAnimations, timelines>>

\* the state of the validators and sanitizers
validationVars == <<pc, impl, key, raw, out, prev, arg, result>>

\* the state of the rendered page and of its AnimationService
frontendVars == <<blocks, dom, activeAnimations, timelines>>

Nil == [t |-> "nil"]

\* no page has been rendered
NoFrontend ==
    /\ blocks = Nil
    /\ dom = Nil
    /\ activeAnimations = Nil
    /\ timelines = <<>>

(***************************************************************************)
(* Bounds of the model.                                                    *)
(***************************************************************************)
MaxStrLen == 3
MaxChanges == 2
MaxSelLen == 4
MaxTimelines == 3
MaxRegistrations == 3
MaxInstances == 3

(***************************************************************************)
(* Characters.                                                             *)
(***************************************************************************)
Digit == {"0", "1", "2", "3", "4", "5", "6", "7", "8", "9"}

LowerCase == {"a", "b", "c", "d", "e", "f", "g", "h", "i", "j", "k", "l", "m",
              "n", "o", "p", "q", "r", "s", "t", "u", "v", "w", "x", "y", "z"}

UpperCase == {"A", "B", "C", "D", "E", "F", "G", "H", "I", "J", "K", "L", "M",
              "N", "O", "P", "Q", "R", "S", "T", "U", "V", "W", "X", "Y", "Z"}

HexDigit == Digit \cup {"a", "b", "c", "d", "e", "f", "A", "B", "C", "D", "E", "F"}

WordChar == Digit \cup LowerCase \cup UpperCase \cup {"_"}

WhiteSpace == {" ", "\t", "\n", "\r", "\f"}

DigitVal(c) ==
    CASE c = "0" -> 0 [] c = "1" -> 1 [] c = "2" -> 2 [] c = "3" -> 3
      [] c = "4" -> 4 [] c = "5" -> 5 [] c = "6" -> 6 [] c = "7" -> 7
      [] c = "8" -> 8 [] c = "9" -> 9

DigitChar(n) ==
    CASE n = 0 -> "0" [] n = 1 -> "1" [] n = 2 -> "2" [] n = 3 -> "3"
      [] n = 4 -> "4" [] n = 5 -> "5" [] n = 6 -> "6" [] n = 7 -> "7"
      [] n = 8 -> "8" [] n = 9 -> "9"

ToLowerChar(c) ==
    CASE c = "A" -> "a" [] c = "B" -> "b" [] c = "C" -> "c" [] c = "D" -> "d"
      [] c = "E" -> "e" [] c = "F" -> "f" [] c = "G" -> "g" [] c = "H" -> "h"
      [] c = "I" -> "i" [] c = "J" -> "j" [] c = "K" -> "k" [] c = "L" -> "l"
      [] c = "M" -> "m" [] c = "N" -> "n" [] c = "O" -> "o" [] c = "P" -> "p"
      [] c = "Q" -> "q" [] c = "R" -> "r" [] c = "S" -> "s" [] c = "T" -> "t"
      [] c = "U" -> "u" [] c = "V" -> "v" [] c = "W" -> "w" [] c = "X" -> "x"
      [] c = "Y" -> "y" [] c = "Z" -> "z" [] OTHER -> c

\* strtolower / the effect of the i flag on the subject
strtolower(s) == [i \in 1..Len(s) |-> ToLowerChar(s[i])]


(***************************************************************************)
(* Regular expressions.  A pattern is a tree of records:                   *)
(*   Chr(S)   one character of the set S        NChr(S)  one not in S      *)
(*   Lit(w)   the characters of w in order      Cat(ps)  ps in sequence    *)
(*   Alt(ps)  one of ps       Opt(p)  p?      Star(p)  p*     Plus(p)  p+  *)
(* Ends(p, s, i) is the set of j such that s[i..j-1] matches p.            *)
(***************************************************************************)
Chr(S) == [k |-> "chr", set |-> S]
NChr(S) == [k |-> "nchr", set |-> S]
Lit(w) == [k |-> "lit", word |-> w]
Cat(ps) == [k |-> "cat", parts |-> ps]
Alt(ps) == [k |-> "alt", parts |-> ps]
Opt(p) == [k |-> "opt", part |-> p]
Star(p) == [k |-> "star", part |-> p]
Plus(p) == [k |-> "cat", parts |-> <<p, [k |-> "star", part |-> p]>>]

RECURSIVE Ends(_, _, _)
RECURSIVE CatEnds(_, _, _, _)
RECURSIVE StarEnds(_, _, _, _)

Ends(p, s, i) ==
    CASE p.k = "chr" ->
            IF i <= Len(s) /\ s[i] \in p.set THEN {i + 1} ELSE {}
      [] p.k = "nchr" ->
            IF i <= Len(s) /\ s[i] \notin p.set THEN {i + 1} ELSE {}
      [] p.k = "lit" ->
            IF i + Len(p.word) - 1 <= Len(s)
               /\ SubSeq(s, i, i + Len(p.word) - 1) = p.word
            THEN {i + Len(p.word)} ELSE {}
      [] p.k = "cat" -> CatEnds(p.parts, s, {i}, 1)
      [] p.k = "alt" -> UNION {Ends(p.parts[n], s, i) : n \in 1..Len(p.parts)}
      [] p.k = "opt" -> {i} \cup Ends(p.part, s, i)
      [] p.k = "star" -> StarEnds(p.part, s, {i}, {i})

CatEnds(ps, s, from, n) ==
    IF n > Len(ps) \/ from = {} THEN from
    ELSE CatEnds(ps, s, UNION {Ends(ps[n], s, j) : j \in from}, n + 1)

StarEnds(p, s, done, todo) ==
    IF todo = {} THEN done
    ELSE LET new == (UNION {Ends(p, s, j) : j \in todo}) \ done
         IN StarEnds(p, s, done \cup new, new)

\* preg_match( '/^p$/', s ): PCRE's $ also matches before a final newline
PregMatchAnchored(p, s) ==
    LET e == Ends(p, s, 1)
    IN \/ Len(s) + 1 \in e
       \/ Len(s) >= 1 /\ s[Len(s)] = "\n" /\ Len(s) \in e

\* RegExp.test for an anchored pattern: JavaScript's $ is the very end
RegExpTestAnchored(p, s) == Len(s) + 1 \in Ends(p, s, 1)

\* preg_match( '/p/', s ) / RegExp( p ).test( s ): p matches somewhere in s
RegexSearch(p, s) == \E i \in 1..(Len(s) + 1) : Ends(p, s, i) # {}

(***************************************************************************)
(* Names written as character sequences.                                   *)
(***************************************************************************)
S_px == <<"p", "x">>
S_0px == <<"0", "p", "x">>
S_auto == <<"a", "u", "t", "o">>
S_transparent == <<"t", "r", "a", "n", "s", "p", "a", "r", "e", "n", "t">>
S_pct == <<"%">>
S_bogus == <<"b", "o", "g", "u", "s">>
S_abc == <<"a", "b", "c">>
S_linear == <<"l", "i", "n", "e", "a", "r">>
S_my_class_p == <<".", "m", "y", "-", "c", "l", "a", "s", "s", " ", ">", " ", "p">>
S_to == <<"t", "o">>
S_from == <<"f", "r", "o", "m">>
S_fromTo == <<"f", "r", "o", "m", "T", "o">>
S_set == <<"s", "e", "t">>
S_pageload == <<"p", "a", "g", "e", "l", "o", "a", "d">>
S_scroll == <<"s", "c", "r", "o", "l", "l">>
S_click == <<"c", "l", "i", "c", "k">>
S_hover == <<"h", "o", "v", "e", "r">>
S_power1_out == <<"p", "o", "w", "e", "r", "1", ".", "o", "u", "t">>
S_power2_out == <<"p", "o", "w", "e", "r", "2", ".", "o", "u", "t">>
S_power3_out == <<"p", "o", "w", "e", "r", "3", ".", "o", "u", "t">>
S_back_out == <<"b", "a", "c", "k", ".", "o", "u", "t">>
S_elastic_out == <<"e", "l", "a", "s", "t", "i", "c", ".", "o", "u", "t">>
S_bounce_out == <<"b", "o", "u", "n", "c", "e", ".", "o", "u", "t">>
S_power1_in == <<"p", "o", "w", "e", "r", "1", ".", "i", "n">>
S_power2_in == <<"p", "o", "w", "e", "r", "2", ".", "i", "n">>
S_power3_in == <<"p", "o", "w", "e", "r", "3", ".", "i", "n">>
S_power1_inOut == <<"p", "o", "w", "e", "r", "1", ".", "i", "n", "O", "u", "t">>
S_power2_inOut == <<"p", "o", "w", "e", "r", "2", ".", "i", "n", "O", "u", "t">>
S_power3_inOut == <<"p", "o", "w", "e", "r", "3", ".", "i", "n", "O", "u", "t">>
S_block == <<"b", "l", "o", "c", "k">>
S_inline == <<"i", "n", "l", "i", "n", "e">>
S_inline_block == <<"i", "n", "l", "i", "n", "e", "-", "b", "l", "o", "c", "k">>
S_flex == <<"f", "l", "e", "x">>
S_inline_flex == <<"i", "n", "l", "i", "n", "e", "-", "f", "l", "e", "x">>
S_grid == <<"g", "r", "i", "d">>
S_inline_grid == <<"i", "n", "l", "i", "n", "e", "-", "g", "r", "i", "d">>
S_table == <<"t", "a", "b", "l", "e">>
S_table_cell == <<"t", "a", "b", "l", "e", "-", "c", "e", "l", "l">>
S_none == <<"n", "o", "n", "e">>
S_visible == <<"v", "i", "s", "i", "b", "l", "e">>
S_hidden == <<"h", "i", "d", "d", "e", "n">>
S_collapse == <<"c", "o", "l", "l", "a", "p", "s", "e">>
S_em == <<"e", "m">>
S_rem == <<"r", "e", "m">>
S_vw == <<"v", "w">>
S_vh == <<"v", "h">>
S_vmin == <<"v", "m", "i", "n">>
S_vmax == <<"v", "m", "a", "x">>
S_ex == <<"e", "x">>
S_ch == <<"c", "h">>
S_pt == <<"p", "t">>
S_pc == <<"p", "c">>
S_in == <<"i", "n">>
S_cm == <<"c", "m">>
S_mm == <<"m", "m">>
S_inherit == <<"i", "n", "h", "e", "r", "i", "t">>
S_initial == <<"i", "n", "i", "t", "i", "a", "l">>
S_unset == <<"u", "n", "s", "e", "t">>
S_currentcolor == <<"c", "u", "r", "r", "e", "n", "t", "c", "o", "l", "o", "r">>
S_black == <<"b", "l", "a", "c", "k">>
S_white == <<"w", "h", "i", "t", "e">>
S_red == <<"r", "e", "d">>
S_green == <<"g", "r", "e", "e", "n">>
S_blue == <<"b", "l", "u", "e">>
S_yellow == <<"y", "e", "l", "l", "o", "w">>
S_cyan == <<"c", "y", "a", "n">>
S_magenta == <<"m", "a", "g", "e", "n", "t", "a">>
S_rgb == <<"r", "g", "b">>
S_hsl == <<"h", "s", "l">>

(***************************************************************************)
(* Numbers.  A float is the exact decimal [m, e] = m * 10^e, normalised so  *)
(* that m has no trailing zero (zero is [0, 0]).                           *)
(***************************************************************************)
RECURSIVE Pow10(_)
Pow10(n) == IF n <= 0 THEN 1 ELSE 10 * Pow10(n - 1)

Abs(n) == IF n < 0 THEN -n ELSE n

RECURSIVE NumDigits(_)
NumDigits(n) == IF n < 10 THEN 1 ELSE 1 + NumDigits(n \div 10)

RECURSIVE Norm(_)
Norm(d) ==
    IF d.m = 0 THEN [m |-> 0, e |-> 0]
    ELSE IF d.m % 10 = 0 THEN Norm([m |-> d.m \div 10, e |-> d.e + 1])
    ELSE d

Dec(m, e) == Norm([m |-> m, e |-> e])

\* position of the decimal point: |d| lies in [10^(p-1), 10^p)
DecPt(d) == NumDigits(Abs(d.m)) + d.e

\* comparison of magnitudes of two non-zero decimals: -1, 0 or 1
MagCmp(a, b) ==
    IF DecPt(a) # DecPt(b) THEN (IF DecPt(a) < DecPt(b) THEN -1 ELSE 1)
    ELSE LET x == IF a.e >= b.e THEN Abs(a.m) * Pow10(a.e - b.e) ELSE Abs(a.m)
             y == IF b.e >= a.e THEN Abs(b.m) * Pow10(b.e - a.e) ELSE Abs(b.m)
         IN IF x < y THEN -1 ELSE IF x > y THEN 1 ELSE 0

Sign(n) == IF n < 0 THEN -1 ELSE IF n > 0 THEN 1 ELSE 0

\* a <=> b on floats
FloatCmp(a, b) ==
    IF Sign(a.m) # Sign(b.m) THEN (IF Sign(a.m) < Sign(b.m) THEN -1 ELSE 1)
    ELSE IF a.m = 0 THEN 0
    ELSE IF a.m > 0 THEN MagCmp(a, b)
    ELSE MagCmp(b, a)

FloatLt(a, b) == FloatCmp(a, b) < 0
FloatLe(a, b) == FloatCmp(a, b) <= 0

\* max( a, b ) and min( a, b ) of PHP on two floats
FloatMax(a, b) == IF FloatLt(a, b) THEN b ELSE a
FloatMin(a, b) == IF FloatLt(b, a) THEN b ELSE a

\* the digits of a natural number, most significant first
RECURSIVE NatToStr(_)
NatToStr(n) ==
    IF n < 10 THEN <<DigitChar(n)>>
    ELSE Append(NatToStr(n \div 10), DigitChar(n % 10))

\* (string) $int
IntToStr(n) == IF n < 0 THEN <<"-">> \o NatToStr(-n) ELSE NatToStr(n)

Zeros(n) == [i \in 1..n |-> "0"]

\* (string) $float with precision 14 (php_gcvt): plain notation when the
\* decimal point position is in -3..15, d.dddE+x otherwise
FloatToStr(d) ==
    LET digs == NatToStr(Abs(d.m))
        n == Len(digs)
        pt == DecPt(d)
        sgn == IF d.m < 0 THEN <<"-">> ELSE <<>>
    IN  IF d.m = 0 THEN <<"0">>
        ELSE IF pt < -3 \/ pt > 15
        THEN sgn \o <<digs[1]>> \o <<".">>
                 \o (IF n = 1 THEN <<"0">> ELSE SubSeq(digs, 2, n))
                 \o <<"E">> \o (IF pt - 1 < 0 THEN <<"-">> ELSE <<"+">>)
                 \o NatToStr(Abs(pt - 1))
        ELSE IF pt <= 0 THEN sgn \o <<"0", ".">> \o Zeros(-pt) \o digs
        ELSE IF pt >= n THEN sgn \o digs \o Zeros(pt - n)
        ELSE sgn \o SubSeq(digs, 1, pt) \o <<".">> \o SubSeq(digs, pt + 1, n)

(***************************************************************************)
(* Numeric strings (PHP 8 _is_numeric_string_ex): optional leading white   *)
(* space, optional sign, digits with an optional fraction (or a fraction   *)
(* alone), an optional exponent, optional trailing white space.            *)
(***************************************************************************)
NumWs == {" ", "\t", "\n", "\r", "\f"}

\* first index >= i of s that does not hold a character of S
SkipSet(s, i, S) ==
    LET stop == {j \in i..Len(s) : s[j] \notin S}
    IN IF stop = {} THEN Len(s) + 1
       ELSE CHOOSE j \in stop : \A l \in stop : j <= l

RECURSIVE DigitsToNat(_)
DigitsToNat(ds) ==
    IF ds = <<>> THEN 0
    ELSE 10 * DigitsToNat(SubSeq(ds, 1, Len(ds) - 1)) + DigitVal(ds[Len(ds)])

\* the parse of s as a number: where each part starts and ends
\* a: start of the sign, b: of the integer digits, c: their end, f: start of
\* the fraction digits, g: their end, h: start of the exponent digits, x:
\* their end
NumParse(s) ==
    LET HasDot(c) == c <= Len(s) /\ s[c] = "."
        HasE(g) == g <= Len(s) /\ s[g] \in {"e", "E"}
        Parsed(a, b, c, f, g, h, x, expOk) ==
            [ok |-> /\ (c > b \/ (f > c /\ g > f))
                    /\ SkipSet(s, IF expOk THEN x ELSE g, NumWs) = Len(s) + 1,
             neg |-> a <= Len(s) /\ s[a] = "-",
             int |-> SubSeq(s, b, c - 1),
             frac |-> SubSeq(s, f, g - 1),
             expNeg |-> expOk /\ s[h - 1] = "-",
             exp |-> IF expOk THEN SubSeq(s, h, x - 1) ELSE <<>>]
        ExpEnd(a, b, c, f, g, h, x) ==
            Parsed(a, b, c, f, g, h, x, HasE(g) /\ x > h)
        ExpDigits(a, b, c, f, g, h) ==
            ExpEnd(a, b, c, f, g, h,
                   IF HasE(g) THEN SkipSet(s, h, Digit) ELSE g)
        ExpSign(a, b, c, f, g) ==
            ExpDigits(a, b, c, f, g,
                      IF HasE(g) /\ g + 1 <= Len(s) /\ s[g + 1] \in {"-", "+"}
                      THEN g + 2 ELSE g + 1)
        FracDigits(a, b, c, f) ==
            ExpSign(a, b, c, f, IF f > c THEN SkipSet(s, f, Digit) ELSE c)
        IntDigits(a, b, c) ==
            FracDigits(a, b, c, IF HasDot(c) THEN c + 1 ELSE c)
        Signed(a, b) == IntDigits(a, b, SkipSet(s, b, Digit))
        Start(a) ==
            Signed(a, IF a <= Len(s) /\ s[a] \in {"-", "+"} THEN a + 1 ELSE a)
    IN Start(SkipSet(s, 1, NumWs))

IsNumericStr(s) == NumParse(s).ok

\* (float) $s for a numeric string
StrToFloat(s) ==
    LET Value(p, mant, ex) ==
            Dec(IF p.neg THEN -mant ELSE mant,
                (IF p.expNeg THEN -ex ELSE ex) - Len(p.frac))
        Parts(p) == Value(p, DigitsToNat(p.int \o p.frac), DigitsToNat(p.exp))
    IN Parts(NumParse(s))

(***************************************************************************)
(* PHP values.                                                             *)
(***************************************************************************)
PNull == [t |-> "null"]
PBool(b) == [t |-> "bool", b |-> b]
PInt(n) == [t |-> "int", i |-> n]
PFloat(m, e) == [t |-> "float", f |-> Dec(m, e)]
PFloatOf(d) == [t |-> "float", f |-> d]
PStr(s) == [t |-> "string", s |-> s]
\* an array is the sequence of its entries [k |-> key, v |-> value], in
\* insertion order; a key is a string or an integer
PArrayOf(entries) == [t |-> "array", a |-> entries]
PArray == PArrayOf(<<>>)
KStr(name) == [kt |-> "string", name |-> name]
KInt(n) == [kt |-> "int", idx |-> n]
Entry(k, v) == [k |-> k, v |-> v]

\* a key that is not set
Absent == [t |-> "absent"]

\* $arr[ name ], or Absent
Get(arr, name) ==
    LET hits == {i \in 1..Len(arr.a) : arr.a[i].k = KStr(name)}
    IN IF hits = {} THEN Absent ELSE arr.a[CHOOSE i \in hits : TRUE].v

\* isset( $arr[ name ] )
isset(arr, name) == Get(arr, name).t \notin {"absent", "null"}

is_bool(x) == x.t = "bool"
is_int(x) == x.t = "int"
is_array(x) == x.t = "array"

is_string(x) == x.t = "string"

is_numeric(x) ==
    \/ x.t \in {"int", "float"}
    \/ x.t = "string" /\ IsNumericStr(x.s)

\* (float) $x for a numeric $x
ToFloat(x) ==
    CASE x.t = "int" -> Dec(x.i, 0)
      [] x.t = "float" -> x.f
      [] x.t = "string" -> StrToFloat(x.s)

\* (string) $x for a numeric $x
ToStr(x) ==
    CASE x.t = "int" -> IntToStr(x.i)
      [] x.t = "float" -> FloatToStr(x.f)
      [] x.t = "string" -> x.s


\* empty( $x )
Empty(x) ==
    CASE x.t = "null" -> TRUE
      [] x.t = "bool" -> ~x.b
      [] x.t = "int" -> x.i = 0
      [] x.t = "float" -> x.f.m = 0
      [] x.t = "string" -> x.s = <<>> \/ x.s = <<"0">>
      [] x.t = "array" -> x.a = <<>>
      [] x.t = "absent" -> TRUE

(***************************************************************************)
(* Property_Validator (includes/validation/property-validator.php)         *)
(***************************************************************************)
Rep(p, n) == Cat([i \in 1..n |-> p])

D == Chr(Digit)
Ws == Star(Chr({" ", "\t", "\n", "\r", "\f"}))
Comma == Lit(<<",">>)

\* (?:,\s*[01](?:\.\d+)?)?
AlphaPart == Opt(Cat(<<Comma, Ws, Chr({"0", "1"}),
                       Opt(Cat(<<Lit(<<".">>), Plus(D)>>))>>))

HEX_COLOR_PATTERN ==
    Cat(<<Lit(<<"#">>), Alt(<<Rep(Chr(HexDigit), 3), Rep(Chr(HexDigit), 6)>>)>>)

RGB_COLOR_PATTERN ==
    Cat(<<Lit(S_rgb), Opt(Lit(<<"a">>)), Lit(<<"(">>),
          Ws, Plus(D), Ws, Comma, Ws, Plus(D), Ws, Comma, Ws, Plus(D), Ws,
          AlphaPart, Ws, Lit(<<")">>)>>)

HSL_COLOR_PATTERN ==
    Cat(<<Lit(S_hsl), Opt(Lit(<<"a">>)), Lit(<<"(">>),
          Ws, Plus(D), Ws, Comma, Ws, Plus(D), Lit(S_pct), Ws, Comma,
          Ws, Plus(D), Lit(S_pct), Ws,
          AlphaPart, Ws, Lit(<<")">>)>>)

\* -?\d+(\.\d+)? or \d+(\.\d+)? followed by one of the units
UnitPattern(signed, units) ==
    Cat(<<IF signed THEN Opt(Lit(<<"-">>)) ELSE Lit(<<>>),
          Plus(D), Opt(Cat(<<Lit(<<".">>), Plus(D)>>)),
          Alt([i \in 1..Len(units) |-> Lit(units[i])])>>)

AllUnits == <<S_px, S_em, S_rem, S_pct, S_vw, S_vh, S_vmin, S_vmax,
              S_ex, S_ch, S_pt, S_pc, S_in, S_cm, S_mm>>

ShortUnits == <<S_px, S_em, S_rem, S_pct, S_vw, S_vh>>

CSS_UNIT_PATTERN == UnitPattern(TRUE, AllUnits)
POSITIVE_CSS_UNIT_PATTERN == UnitPattern(FALSE, ShortUnits)
SIGNED_CSS_UNIT_PATTERN == UnitPattern(TRUE, ShortUnits)

ColorKeywords ==
    {S_transparent, S_inherit, S_initial, S_unset, S_currentcolor, S_black,
     S_white, S_red, S_green, S_blue, S_yellow, S_cyan, S_magenta}

validate_css_color(value) ==
    \/ PregMatchAnchored(HEX_COLOR_PATTERN, value)
    \/ PregMatchAnchored(RGB_COLOR_PATTERN, value)
    \/ PregMatchAnchored(HSL_COLOR_PATTERN, value)
    \/ strtolower(value) \in ColorKeywords

validate_css_unit(value) == PregMatchAnchored(CSS_UNIT_PATTERN, value)

sanitize_css_unit(value, default_unit) ==
    IF is_numeric(value) THEN PStr(ToStr(value) \o default_unit)
    ELSE IF is_string(value) /\ validate_css_unit(value.s) THEN value
    ELSE PStr(<<"0">> \o default_unit)

\* the lower clamp forgotten
sanitize_numeric_value_noMin(value, min, max, default) ==
    IF ~is_numeric(value) THEN PFloatOf(default)
    ELSE PFloatOf(FloatMin(max, ToFloat(value)))

sanitize_numeric_value(value, min, max, default) ==
    IF ~is_numeric(value) THEN PFloatOf(default)
    ELSE PFloatOf(FloatMax(min, FloatMin(max, ToFloat(value))))

\* the color check forgotten
sanitize_css_color_unchecked(value, default) == PStr(value)

sanitize_css_color(value, default) ==
    IF validate_css_color(value) THEN PStr(value) ELSE PStr(default)

sanitize_animation_property_value(property, value) ==
    CASE property \in {"x", "y"} -> sanitize_css_unit(value, S_px)
      [] property = "rotation" ->
            sanitize_numeric_value(value, Dec(-360, 0), Dec(360, 0), Dec(0, 0))
      [] property = "scale" ->
            sanitize_numeric_value(value, Dec(1, -1), Dec(10, 0), Dec(1, 0))
      [] property = "opacity" ->
            sanitize_numeric_value(value, Dec(0, 0), Dec(1, 0), Dec(1, 0))
      [] property \in {"backgroundColor", "color"} ->
            IF is_string(value) THEN sanitize_css_color(value.s, S_transparent)
            ELSE PStr(S_transparent)
      [] property \in {"width", "height"} -> sanitize_css_unit(value, S_px)
      [] OTHER -> value


(***************************************************************************)
(* The sanitizers of the animation strategies.  FromTo_Animation_Strategy  *)
(* and Set_Animation_Strategy each carry their own copy.                   *)
(***************************************************************************)
\* /^rgba?\([^)]+\)$/
STRATEGY_RGB_COLOR_PATTERN ==
    Cat(<<Lit(S_rgb), Opt(Lit(<<"a">>)), Lit(<<"(">>),
          Plus(NChr({")"})), Lit(<<")">>)>>)

\* max( 0, (float) $value ) . 'px'
NonNegativeToStr(d) == IF d.m < 0 THEN <<"0">> ELSE FloatToStr(d)

FromTo_is_valid_property(k, value) ==
    /\ k \in {"x", "y", "rotation", "scale", "opacity", "backgroundColor",
              "color", "width", "height"}
    /\ ~Empty(value)

FromTo_sanitize_movement_value(value) ==
    IF is_numeric(value) THEN PStr(ToStr(value) \o S_px)
    ELSE IF is_string(value) /\ PregMatchAnchored(SIGNED_CSS_UNIT_PATTERN, value.s)
    THEN value
    ELSE PStr(S_0px)

FromTo_sanitize_numeric_value(value, min, max) ==
    LET numeric_value == IF is_numeric(value) THEN ToFloat(value) ELSE Dec(0, 0)
    IN PFloatOf(FloatMax(min, FloatMin(max, numeric_value)))

FromTo_sanitize_color_value(value) ==
    IF is_string(value) /\ PregMatchAnchored(HEX_COLOR_PATTERN, value.s) THEN value
    ELSE IF is_string(value) /\ PregMatchAnchored(STRATEGY_RGB_COLOR_PATTERN, value.s)
    THEN value
    ELSE PStr(S_transparent)

FromTo_sanitize_size_value(value) ==
    IF is_numeric(value) THEN PStr(NonNegativeToStr(ToFloat(value)) \o S_px)
    ELSE IF is_string(value) /\ PregMatchAnchored(POSITIVE_CSS_UNIT_PATTERN, value.s)
    THEN value
    ELSE PStr(S_auto)

FromTo_sanitize_property_value(k, value) ==
    CASE k \in {"x", "y"} -> FromTo_sanitize_movement_value(value)
      [] k = "rotation" ->
            FromTo_sanitize_numeric_value(value, Dec(-360, 0), Dec(360, 0))
      [] k = "scale" ->
            FromTo_sanitize_numeric_value(value, Dec(1, -1), Dec(10, 0))
      [] k = "opacity" ->
            FromTo_sanitize_numeric_value(value, Dec(0, 0), Dec(1, 0))
      [] k \in {"backgroundColor", "color"} -> FromTo_sanitize_color_value(value)
      [] k \in {"width", "height"} -> FromTo_sanitize_size_value(value)
      [] OTHER -> value

Set_is_valid_property(k, value) ==
    /\ k \in {"x", "y", "rotation", "scale", "opacity", "backgroundColor",
              "color", "width", "height", "display", "visibility", "zIndex"}
    /\ ~Empty(value)

Set_sanitize_movement_value(value) ==
    IF is_numeric(value) THEN PStr(ToStr(value) \o S_px)
    ELSE IF is_string(value) /\ PregMatchAnchored(SIGNED_CSS_UNIT_PATTERN, value.s)
    THEN value
    ELSE PStr(S_0px)

Set_sanitize_numeric_value(value, min, max) ==
    LET numeric_value == IF is_numeric(value) THEN ToFloat(value) ELSE Dec(0, 0)
    IN PFloatOf(FloatMax(min, FloatMin(max, numeric_value)))

Set_sanitize_color_value(value) ==
    IF is_string(value) /\ PregMatchAnchored(HEX_COLOR_PATTERN, value.s) THEN value
    ELSE IF is_string(value) /\ PregMatchAnchored(STRATEGY_RGB_COLOR_PATTERN, value.s)
    THEN value
    ELSE PStr(S_transparent)

Set_sanitize_size_value(value) ==
    IF is_numeric(value) THEN PStr(NonNegativeToStr(ToFloat(value)) \o S_px)
    ELSE IF is_string(value) /\ PregMatchAnchored(POSITIVE_CSS_UNIT_PATTERN, value.s)
    THEN value
    ELSE PStr(S_auto)

DisplayValues ==
    {S_block, S_inline, S_inline_block, S_flex, S_inline_flex, S_grid,
     S_inline_grid, S_table, S_table_cell, S_none}

Set_sanitize_display_value(value) ==
    IF is_string(value) /\ value.s \in DisplayValues THEN value ELSE PStr(S_block)

VisibilityValues == {S_visible, S_hidden, S_collapse}

Set_sanitize_visibility_value(value) ==
    IF is_string(value) /\ value.s \in VisibilityValues THEN value
    ELSE PStr(S_visible)

\* the integer part of a decimal of magnitude below 10^9
Trunc(d) ==
    IF d.e >= 0 THEN d.m * Pow10(d.e)
    ELSE IF -d.e >= NumDigits(Abs(d.m)) THEN 0
    ELSE Sign(d.m) * (Abs(d.m) \div Pow10(-d.e))

\* max( -999, min( 999, (int) $value ) ), as the set of results the cast
\* allows.  (int) of a float beyond the 64-bit range is undefined in PHP
\* (the build wraps, saturates or gives 0), so every clamped integer is a
\* possible result there; decimals with 19 digits before the point and a
\* leading 9 are counted as beyond the range.
ClampedIntCast(value) ==
    LET d == ToFloat(value)
        digs == NatToStr(Abs(d.m))
        beyond == DecPt(d) > 19 \/ (DecPt(d) = 19 /\ digs[1] = "9")
    IN  IF beyond THEN (-999)..999
        ELSE IF DecPt(d) > 3 THEN {IF d.m < 0 THEN -999 ELSE 999}
        ELSE {Trunc(d)}

\* the set of values sanitize_z_index_value may return
Set_sanitize_z_index_value(value) ==
    IF is_numeric(value) THEN {PInt(n) : n \in ClampedIntCast(value)}
    ELSE {PInt(0)}

\* the set of values sanitize_property_value may return
Set_sanitize_property_value(k, value) ==
    CASE k \in {"x", "y"} -> {Set_sanitize_movement_value(value)}
      [] k = "rotation" ->
            {Set_sanitize_numeric_value(value, Dec(-360, 0), Dec(360, 0))}
      [] k = "scale" ->
            {Set_sanitize_numeric_value(value, Dec(1, -1), Dec(10, 0))}
      [] k = "opacity" ->
            {Set_sanitize_numeric_value(value, Dec(0, 0), Dec(1, 0))}
      [] k \in {"backgroundColor", "color"} -> {Set_sanitize_color_value(value)}
      [] k \in {"width", "height"} -> {Set_sanitize_size_value(value)}
      [] k = "display" -> {Set_sanitize_display_value(value)}
      [] k = "visibility" -> {Set_sanitize_visibility_value(value)}
      [] k = "zIndex" -> Set_sanitize_z_index_value(value)
      [] OTHER -> {value}


(***************************************************************************)
(* Animation_Validator (includes/validation/animation-validator.php).      *)
(* $this->errors is a sequence of [field, message] records, one for each   *)
(* "{$field}: {$message}" string.  Each validate_* operator returns the    *)
(* errors it adds.                                                         *)
(***************************************************************************)
Err(field, message) == <<[field |-> field, message |-> message]>>

RuleTypes == {S_to, S_from, S_fromTo, S_set}
RuleTriggers == {S_pageload, S_scroll, S_click, S_hover}
RuleProperties ==
    {"x", "y", "rotation", "scale", "opacity", "backgroundColor", "color",
     "width", "height"}
RuleEases ==
    {S_none, S_power1_out, S_power2_out, S_power3_out, S_back_out,
     S_elastic_out, S_bounce_out, S_power1_in, S_power2_in, S_power3_in,
     S_power1_inOut, S_power2_inOut, S_power3_inOut}

validate_enabled(data) ==
    IF ~isset(data, "enabled") THEN Err("enabled", "Field is required")
    ELSE IF ~is_bool(Get(data, "enabled"))
    THEN Err("enabled", "Must be a boolean value")
    ELSE <<>>

validate_type(data) ==
    IF ~isset(data, "type") THEN Err("type", "Animation type is required")
    ELSE IF ~is_string(Get(data, "type")) THEN Err("type", "Must be a string")
    ELSE IF Get(data, "type").s \notin RuleTypes
    THEN Err("type", "Invalid type. Allowed: to, from, fromTo, set")
    ELSE <<>>

validate_trigger(data) ==
    IF ~isset(data, "trigger") THEN Err("trigger", "Trigger type is required")
    ELSE IF ~is_string(Get(data, "trigger")) THEN Err("trigger", "Must be a string")
    ELSE IF Get(data, "trigger").s \notin RuleTriggers
    THEN Err("trigger", "Invalid trigger. Allowed: pageload, scroll, click, hover")
    ELSE <<>>

validate_movement_property(k, value) ==
    IF is_numeric(value) THEN <<>>
    ELSE IF ~is_string(value)
            \/ ~PregMatchAnchored(SIGNED_CSS_UNIT_PATTERN, value.s)
    THEN Err("properties." \o k, "Must be a number or valid CSS unit")
    ELSE <<>>

\* validate_rotation_property, validate_scale_property and
\* validate_opacity_property differ in the bounds and the message only
validate_range_property(k, value, min, max, message) ==
    IF ~is_numeric(value) THEN Err("properties." \o k, "Must be a number")
    ELSE IF FloatLt(ToFloat(value), min) \/ FloatLt(max, ToFloat(value))
    THEN Err("properties." \o k, message)
    ELSE <<>>

validate_rotation_property(k, value) ==
    validate_range_property(k, value, Dec(-360, 0), Dec(360, 0),
                            "Must be between -360 and 360 degrees")

validate_scale_property(k, value) ==
    validate_range_property(k, value, Dec(1, -1), Dec(10, 0),
                            "Must be between 0.1 and 10")

validate_opacity_property(k, value) ==
    validate_range_property(k, value, Dec(0, 0), Dec(1, 0),
                            "Must be between 0 and 1")

validate_color_property(k, value) ==
    IF ~is_string(value) THEN Err("properties." \o k, "Must be a string")
    ELSE IF /\ ~PregMatchAnchored(HEX_COLOR_PATTERN, value.s)
            /\ ~PregMatchAnchored(STRATEGY_RGB_COLOR_PATTERN, value.s)
            /\ strtolower(value.s) \notin
                    {S_transparent, S_inherit, S_initial, S_unset}
    THEN Err("properties." \o k, "Must be a valid color (hex, rgb, or keyword)")
    ELSE <<>>

validate_size_property(k, value) ==
    IF is_numeric(value) THEN <<>>
    ELSE IF ~is_string(value)
            \/ ~PregMatchAnchored(POSITIVE_CSS_UNIT_PATTERN, value.s)
    THEN Err("properties." \o k, "Must be a positive number or valid CSS unit")
    ELSE <<>>

\* validate_property( string $key, $value ) for a string key
validate_property(k, value) ==
    IF k \notin RuleProperties THEN Err("properties." \o k, "Invalid property")
    ELSE CASE k \in {"x", "y"} -> validate_movement_property(k, value)
           [] k = "rotation" -> validate_rotation_property(k, value)
           [] k = "scale" -> validate_scale_property(k, value)
           [] k = "opacity" -> validate_opacity_property(k, value)
           [] k \in {"backgroundColor", "color"} ->
                    validate_color_property(k, value)
           [] k \in {"width", "height"} -> validate_size_property(k, value)

\* the foreach of validate_properties from entry n on, with the errors
\* added so far.  The file declares strict_types, so handing an integer
\* key to validate_property( string $key, ... ) raises a TypeError, which
\* ends the loop and leaves validate.
RECURSIVE ValidateEntries(_, _, _)
ValidateEntries(entries, n, errs) ==
    IF n > Len(entries) THEN [errors |-> errs, threw |-> FALSE]
    ELSE IF entries[n].k.kt # "string" THEN [errors |-> errs, threw |-> TRUE]
    ELSE ValidateEntries(entries, n + 1,
             errs \o validate_property(entries[n].k.name, entries[n].v))

\* $data['enabled'] ?? false, as a condition
Truthy(x) == ~Empty(x)

validate_properties(data) ==
    IF ~isset(data, "properties")
    THEN [errors |-> Err("properties", "Properties are required"), threw |-> FALSE]
    ELSE IF ~is_array(Get(data, "properties"))
    THEN [errors |-> Err("properties", "Must be an array"), threw |-> FALSE]
    ELSE IF Truthy(Get(data, "enabled")) /\ Empty(Get(data, "properties"))
    THEN [errors |-> Err("properties",
             "At least one property is required when animation is enabled"),
          threw |-> FALSE]
    ELSE ValidateEntries(Get(data, "properties").a, 1, <<>>)

validate_duration(timing) ==
    IF ~isset(timing, "duration")
    THEN Err("timing.duration", "Duration is required")
    ELSE IF ~is_numeric(Get(timing, "duration"))
    THEN Err("timing.duration", "Must be a number")
    ELSE IF \/ FloatLe(ToFloat(Get(timing, "duration")), Dec(0, 0))
            \/ FloatLt(Dec(10, 0), ToFloat(Get(timing, "duration")))
    THEN Err("timing.duration", "Must be between 0.1 and 10 seconds")
    ELSE <<>>

validate_delay(timing) ==
    IF ~isset(timing, "delay") THEN <<>>
    ELSE IF ~is_numeric(Get(timing, "delay"))
    THEN Err("timing.delay", "Must be a number")
    ELSE IF \/ FloatLt(ToFloat(Get(timing, "delay")), Dec(0, 0))
            \/ FloatLt(Dec(5, 0), ToFloat(Get(timing, "delay")))
    THEN Err("timing.delay", "Must be between 0 and 5 seconds")
    ELSE <<>>

\* (int) $x for a numeric $x of small magnitude
ToInt(x) == Trunc(ToFloat(x))

validate_repeat(timing) ==
    IF ~isset(timing, "repeat") THEN <<>>
    ELSE IF ~is_int(Get(timing, "repeat")) /\ ~is_numeric(Get(timing, "repeat"))
    THEN Err("timing.repeat", "Must be an integer")
    ELSE IF ToInt(Get(timing, "repeat")) < 0 \/ ToInt(Get(timing, "repeat")) > 100
    THEN Err("timing.repeat", "Must be between 0 and 100")
    ELSE <<>>

validate_yoyo(timing) ==
    IF ~isset(timing, "yoyo") THEN <<>>
    ELSE IF ~is_bool(Get(timing, "yoyo"))
    THEN Err("timing.yoyo", "Must be a boolean")
    ELSE <<>>

validate_ease(timing) ==
    IF ~isset(timing, "ease") THEN Err("timing.ease", "Ease function is required")
    ELSE IF ~is_string(Get(timing, "ease")) THEN Err("timing.ease", "Must be a string")
    ELSE IF Get(timing, "ease").s \notin RuleEases
    THEN Err("timing.ease", "Invalid ease function")
    ELSE <<>>

validate_timing(data) ==
    IF ~isset(data, "timing")
    THEN Err("timing", "Timing configuration is required")
    ELSE IF ~is_array(Get(data, "timing")) THEN Err("timing", "Must be an array")
    ELSE LET timing == Get(data, "timing")
         IN validate_duration(timing) \o validate_delay(timing)
            \o validate_repeat(timing) \o validate_yoyo(timing)
            \o validate_ease(timing)

validate_selector(data) ==
    IF ~isset(data, "selector") \/ Empty(Get(data, "selector")) THEN <<>>
    ELSE IF ~is_string(Get(data, "selector")) THEN Err("selector", "Must be a string")
    ELSE IF Len(Get(data, "selector").s) > 200
    THEN Err("selector", "Must be less than 200 characters")
    ELSE <<>>

\* validate( array $data ): the errors left in $this->errors, whether the
\* call raised, and the value it returned when it did not
validate(data) ==
    LET head == validate_enabled(data) \o validate_type(data)
                    \o validate_trigger(data)
        props == validate_properties(data)
        all == head \o props.errors \o validate_timing(data)
                    \o validate_selector(data)
    IN IF props.threw
       THEN [threw |-> TRUE, ret |-> FALSE, errors |-> head \o props.errors]
       ELSE [threw |-> FALSE, ret |-> all = <<>>, errors |-> all]


(***************************************************************************)
(* The selector matchers: Property_Validator::validate_css_selector (PHP)  *)
(* and SelectorControl.validateSelector (TypeScript).                      *)
(***************************************************************************)
S_javascript_ == <<"j", "a", "v", "a", "s", "c", "r", "i", "p", "t", ":">>
S_data_ == <<"d", "a", "t", "a", ":">>
S_vbscript_ == <<"v", "b", "s", "c", "r", "i", "p", "t", ":">>
S_on == <<"o", "n">>
S_script_open == <<"<", "s", "c", "r", "i", "p", "t">>
S_script_close == <<"<", "/", "s", "c", "r", "i", "p", "t">>
S_on_pattern_text == <<"o", "n", "\\", "w", "+", "\\", "s", "*", "=">>
S_script_alert == <<"<", "s", "c", "r", "i", "p", "t", ">", "a", "l", "e", "r", "t", "(", "1", ")", "<", "/", "s", "c", "r", "i", "p", "t", ">">>
S_onclick_attr == <<"a", "[", "o", "n", "c", "l", "i", "c", "k", "=", "x", "]">>
S_onClick_spaced == <<"d", "i", "v", "[", "o", "n", "C", "l", "i", "c", "k", " ", " ", "=", " ", "x", "]">>
S_JavaScript_url == <<"a", "[", "h", "r", "e", "f", "=", "J", "a", "v", "a", "S", "c", "r", "i", "p", "t", ":", "x", "]">>
S_DATA_url == <<"D", "A", "T", "A", ":", "t", "e", "x", "t">>
S_vbscript_url == <<"a", "[", "h", "r", "e", "f", "=", "v", "b", "s", "c", "r", "i", "p", "t", ":", "x", "]">>
S_SCRIPT_close == <<"<", "/", "S", "C", "R", "I", "P", "T">>

\* the entries of $forbidden_patterns / forbiddenPatterns, as written
ForbiddenPatternTexts ==
    <<S_javascript_, S_data_, S_vbscript_, S_on_pattern_text,
      S_script_open, S_script_close>>

\* new RegExp( pattern, 'i' ): the text is read as a regular expression;
\* only the fourth entry contains operators
ForbiddenRegExps ==
    <<Lit(S_javascript_), Lit(S_data_), Lit(S_vbscript_),
      Cat(<<Lit(S_on), Plus(Chr(WordChar)), Star(Chr(WhiteSpace)), Lit(<<"=">>)>>),
      Lit(S_script_open), Lit(S_script_close)>>

\* '/' . preg_quote( $pattern, '/' ) . '/i': preg_quote escapes every
\* operator, so each text is searched for literally
QuotedPatterns ==
    [n \in 1..Len(ForbiddenPatternTexts) |-> Lit(ForbiddenPatternTexts[n])]

\* Property_Validator::validate_css_selector( string $selector )
validate_css_selector(selector) ==
    IF Empty(PStr(selector)) \/ Len(selector) > 500 THEN FALSE
    ELSE ~\E n \in 1..Len(QuotedPatterns) :
            RegexSearch(QuotedPatterns[n], strtolower(selector))

S_java_script_url ==
    <<"a", "[", "h", "r", "e", "f", "=", "j", "a", "v", "a", "!", "s", "c",
      "r", "i", "p", "t", ":", "x", "]">>

\* selector.trim()
Trim(s) ==
    LET keep == {i \in 1..Len(s) : s[i] \notin WhiteSpace}
    IN IF keep = {} THEN <<>>
       ELSE SubSeq(s, CHOOSE i \in keep : \A j \in keep : i <= j,
                      CHOOSE i \in keep : \A j \in keep : i >= j)

\* the characters SECURITY_FORBIDDEN_PATTERN leaves: [\w\s\-\.#\[\]=:,()\'>+~]
SECURITY_ALLOWED ==
    WordChar \cup WhiteSpace \cup
    {"-", ".", "#", "[", "]", "=", ":", ",", "(", ")", "'", ">", "+", "~"}

\* substr( $s, 0, $n )
substr0(s, n) == IF Len(s) <= n THEN s ELSE SubSeq(s, 1, n)

\* Property_Validator::sanitize_css_selector( string $selector )
sanitize_css_selector(selector) ==
    IF ~validate_css_selector(Trim(selector)) THEN <<>>
    ELSE substr0(SelectSeq(Trim(selector), LAMBDA c : c \in SECURITY_ALLOWED),
                 200)

\* SelectorControl.validateSelector( selector )
validateSelector(selector) ==
    IF selector = <<>> \/ Trim(selector) = <<>> THEN TRUE
    ELSE IF \E n \in 1..Len(ForbiddenRegExps) :
                RegexSearch(ForbiddenRegExps[n], strtolower(selector))
    THEN FALSE
    ELSE Len(selector) <= 200

(***************************************************************************)
(* The editor-side validators.  A JavaScript object is written like a PHP  *)
(* array: the sequence of its entries; a number is an int or a float, and  *)
(* undefined is Absent.                                                    *)
(***************************************************************************)
\* the truth value of a JavaScript value
JsTruthy(x) ==
    CASE x.t \in {"absent", "null"} -> FALSE
      [] x.t = "bool" -> x.b
      [] x.t = "int" -> x.i # 0
      [] x.t = "float" -> x.f.m # 0
      [] x.t = "string" -> x.s # <<>>
      [] x.t = "array" -> TRUE

\* AnimationValidator.validateCSSUnit
validateCSSUnit(value) == RegExpTestAnchored(CSS_UNIT_PATTERN, value)

\* AnimationValidator.validateRange
validateRange(value, min, max) ==
    FloatLe(min, ToFloat(value)) /\ FloatLe(ToFloat(value), max)

\* AnimationControlsManager.validateConfiguration(): the errors
validateConfiguration(config) ==
    (IF JsTruthy(Get(config, "enabled")) /\ Len(Get(config, "properties").a) = 0
     THEN <<"At least one animation property is required when animation is enabled">>
     ELSE <<>>)
    \o (IF FloatLe(ToFloat(Get(Get(config, "timing"), "duration")), Dec(0, 0))
        THEN <<"Animation duration must be greater than 0">> ELSE <<>>)
    \o (IF JsTruthy(Get(config, "selector"))
           /\ ~validateSelector(Get(config, "selector").s)
        THEN <<"Invalid CSS selector provided">> ELSE <<>>)

\* AnimationValidator.validateConfig( config ): the errors
validateConfig(config) ==
    LET props == Get(config, "properties")
        timing == Get(config, "timing")
        x == Get(props, "x")
        y == Get(props, "y")
        opacity == Get(props, "opacity")
    IN IF ~JsTruthy(Get(config, "enabled")) THEN <<>>
       ELSE (IF FloatLe(ToFloat(Get(timing, "duration")), Dec(0, 0))
             THEN <<"Duration must be greater than 0">> ELSE <<>>)
         \o (IF FloatLt(ToFloat(Get(timing, "delay")), Dec(0, 0))
             THEN <<"Delay cannot be negative">> ELSE <<>>)
         \o (IF JsTruthy(x) /\ x.t = "string" /\ ~validateCSSUnit(x.s)
             THEN <<"X movement must be a valid CSS unit">> ELSE <<>>)
         \o (IF JsTruthy(y) /\ y.t = "string" /\ ~validateCSSUnit(y.s)
             THEN <<"Y movement must be a valid CSS unit">> ELSE <<>>)
         \o (IF opacity # Absent /\ ~validateRange(opacity, Dec(0, 0), Dec(1, 0))
             THEN <<"Opacity must be between 0 and 1">> ELSE <<>>)

(***************************************************************************)
(* Animation_Config (the value object).                                    *)
(***************************************************************************)
\* $arr[ name ] ?? default
GetOr(arr, name, default) ==
    IF isset(arr, name) THEN Get(arr, name) ELSE default

\* (array) $x for a value that is set
CastArray(x) == IF is_array(x) THEN x ELSE PArrayOf(<<Entry(KInt(0), x)>>)

\* the number a string starts with (strtod semantics), 0 when there is none
LeadingNumber(s) ==
    LET p == NumParse(s)
        mant == DigitsToNat(p.int \o p.frac)
        ex == DigitsToNat(p.exp)
    IN IF p.int = <<>> /\ p.frac = <<>> THEN Dec(0, 0)
       ELSE Dec(IF p.neg THEN -mant ELSE mant,
                (IF p.expNeg THEN -ex ELSE ex) - Len(p.frac))

\* (float) $x
CastFloat(x) ==
    CASE x.t = "int" -> Dec(x.i, 0)
      [] x.t = "float" -> x.f
      [] x.t = "string" -> LeadingNumber(x.s)
      [] x.t = "bool" -> IF x.b THEN Dec(1, 0) ELSE Dec(0, 0)
      [] x.t = "array" -> IF x.a = <<>> THEN Dec(0, 0) ELSE Dec(1, 0)
      [] x.t = "null" -> Dec(0, 0)

\* (int) $x, for values of small magnitude
CastInt(x) == Trunc(CastFloat(x))

\* (string) $x; an array gives "Array" with a warning
CastString(x) ==
    CASE x.t = "string" -> x.s
      [] x.t = "int" -> IntToStr(x.i)
      [] x.t = "float" -> FloatToStr(x.f)
      [] x.t = "bool" -> IF x.b THEN <<"1">> ELSE <<>>
      [] x.t = "array" -> <<"A", "r", "r", "a", "y">>
      [] x.t = "null" -> <<>>

ConfigEases ==
    {S_none, S_power1_out, S_power2_out, S_power3_out, S_back_out,
     S_elastic_out, S_bounce_out, S_power1_in, S_power2_in, S_power3_in,
     S_power1_inOut, S_power2_inOut, S_power3_inOut}

\* sanitize_type( string $type ), for a string
sanitize_type(type) ==
    IF type \in {S_to, S_from, S_fromTo, S_set} THEN type ELSE S_to

\* sanitize_trigger( string $trigger ), for a string
sanitize_trigger(trigger) ==
    IF trigger \in {S_pageload, S_scroll, S_click, S_hover} THEN trigger
    ELSE S_pageload

\* sanitize_ease( string $ease ), for a string
sanitize_ease(ease) == IF ease \in ConfigEases THEN ease ELSE S_power1_out

\* new Animation_Config( $config ).  The file declares strict_types, so a
\* type, trigger or ease that is set and is not a string raises a TypeError
\* at the call of its string-typed sanitizer.
construct(config) ==
    LET type == GetOr(config, "type", PStr(S_to))
        trigger == GetOr(config, "trigger", PStr(S_pageload))
        timing == CastArray(GetOr(config, "timing", PArray))
        ease == GetOr(timing, "ease", PStr(S_power1_out))
    IN  IF ~is_string(type) \/ ~is_string(trigger) \/ ~is_string(ease)
        THEN [threw |-> TRUE]
        ELSE [threw |-> FALSE,
              enabled |-> Truthy(GetOr(config, "enabled", PBool(FALSE))),
              type |-> sanitize_type(type.s),
              trigger |-> sanitize_trigger(trigger.s),
              properties |-> CastArray(GetOr(config, "properties", PArray)),
              duration |-> FloatMax(Dec(1, -1),
                                    CastFloat(GetOr(timing, "duration", PFloat(5, -1)))),
              delay |-> FloatMax(Dec(0, 0), CastFloat(GetOr(timing, "delay", PInt(0)))),
              repeat |-> IF CastInt(GetOr(timing, "repeat", PInt(0))) < 0 THEN 0
                         ELSE CastInt(GetOr(timing, "repeat", PInt(0))),
              yoyo |-> Truthy(GetOr(timing, "yoyo", PBool(FALSE))),
              ease |-> sanitize_ease(ease.s),
              selector |-> IF ~Empty(Get(config, "selector"))
                           THEN PStr(CastString(Get(config, "selector")))
                           ELSE PNull]

\* Animation_Config::to_array(), o the constructed object
to_array(o) ==
    PArrayOf(<<
        Entry(KStr("enabled"), PBool(o.enabled)),
        Entry(KStr("type"), PStr(o.type)),
        Entry(KStr("trigger"), PStr(o.trigger)),
        Entry(KStr("properties"), o.properties),
        Entry(KStr("timing"), PArrayOf(<<
            Entry(KStr("duration"), PFloatOf(o.duration)),
            Entry(KStr("delay"), PFloatOf(o.delay)),
            Entry(KStr("repeat"), PInt(o.repeat)),
            Entry(KStr("yoyo"), PBool(o.yoyo)),
            Entry(KStr("ease"), PStr(o.ease))>>)),
        Entry(KStr("selector"), o.selector)>>)

(***************************************************************************)
(* Inputs of the sanitizers.                                               *)
(***************************************************************************)
StrAlphabet == {"-", "5", ".", "e", "p", "x"}

\* the strings of at most n characters over an alphabet
RECURSIVE StringsOver(_, _)
StringsOver(alphabet, n) ==
    IF n = 0 THEN {<<>>}
    ELSE LET shorter == StringsOver(alphabet, n - 1)
         IN shorter \cup {Append(w, c) : w \in shorter, c \in alphabet}

SampleStrings ==
    {<<>>,
     <<"0">>,
     <<"5">>,
     <<"-", "5", "p", "x">>,
     <<"5", "p", "x">>,
     <<"1", ".", "5", "e", "m">>,
     <<"5", "p", "t">>,
     <<"-", "5", "v", "m", "i", "n">>,
     <<"5", "v", "m", "i", "n">>,
     <<"5", "0", "%">>,
     <<"a", "u", "t", "o">>,
     <<" ", "5">>,
     <<"5", " ">>,
     <<"+", "5">>,
     <<"5", ".">>,
     <<"1", "e", "3">>,
     <<".", "5">>,
     <<"5", "p", "x", "\n">>,
     <<"n", "o", "t", "-", "a", "-", "c", "o", "l", "o", "r">>,
     <<"#", "f", "f", "f">>,
     <<"#", "F", "F", "A", "A", "0", "0">>,
     <<"#", "f", "f", "f", "f">>,
     <<"r", "g", "b", "(", "1", ",", "2", ",", "3", ")">>,
     <<"r", "g", "b", "a", "(", "1", ",", " ", "2", ",", " ", "3", ",", " ", "0", ".", "5", ")">>,
     <<"r", "g", "b", "(", "x", ")">>,
     <<"h", "s", "l", "(", "1", ",", "2", "%", ",", "3", "%", ")">>,
     <<"r", "e", "d">>,
     <<"R", "E", "D">>,
     <<"t", "r", "a", "n", "s", "p", "a", "r", "e", "n", "t">>,
     <<"9", "0", "0", "0">>,
     <<"-", "9", "0", "0", "0">>,
     <<"0", ".", "0", "5">>,
     <<"1", "e", "2", "5">>,
     <<"1", "e", "-", "5">>}

RawStrings == StringsOver(StrAlphabet, MaxStrLen) \cup SampleStrings

RawValues ==
    {PNull, PBool(TRUE), PBool(FALSE), PArray,
     PArrayOf(<<Entry(KInt(0), PInt(5))>>)}
    \cup {PInt(n) : n \in {-9000, -360, -5, 0, 1, 5, 360, 999, 1000, 9000}}
    \cup {PFloat(m, e) : m \in {-15, 0, 1, 5, 15}, e \in {-5, -1, 0, 3, 25}}
    \cup {PStr(w) : w \in RawStrings}

PropertyKeys ==
    {"x", "y", "rotation", "scale", "opacity", "backgroundColor", "color",
     "width", "height"}

Keys == PropertyKeys \cup {"display", "visibility", "zIndex"}

(***************************************************************************)
(* Sanitizing one property value, and sanitizing the result again.         *)
(***************************************************************************)
InitSanitize ==
    /\ pc = "input"
    /\ impl = "none"
    /\ key \in Keys
    /\ raw \in RawValues
    /\ out = Nil
    /\ prev = Nil
    /\ NoFrontend
    /\ arg = Nil
    /\ result = Nil

\* Property_Validator::sanitize_animation_property_value( key, raw )
Sanitize ==
    /\ pc = "input"
    /\ pc' = "sanitized"
    /\ impl' = "Property_Validator"
    /\ out' = sanitize_animation_property_value(key, raw)
    /\ UNCHANGED <<key, raw, prev, arg, result>>
    /\ UNCHANGED frontendVars

\* one iteration of FromTo_Animation_Strategy::prepare_to_properties
FromToSanitize ==
    /\ pc = "input"
    /\ FromTo_is_valid_property(key, raw)
    /\ pc' = "sanitized"
    /\ impl' = "FromTo"
    /\ out' = FromTo_sanitize_property_value(key, raw)
    /\ UNCHANGED <<key, raw, prev, arg, result>>
    /\ UNCHANGED frontendVars

\* one iteration of Set_Animation_Strategy::prepare_properties
SetSanitize ==
    /\ pc = "input"
    /\ Set_is_valid_property(key, raw)
    /\ pc' = "sanitized"
    /\ impl' = "Set"
    /\ out' \in Set_sanitize_property_value(key, raw)
    /\ UNCHANGED <<key, raw, prev, arg, result>>
    /\ UNCHANGED frontendVars

\* the sanitized value is sanitized once more by the same sanitizer
Resanitize ==
    /\ pc = "sanitized"
    /\ pc' = "resanitized"
    /\ prev' = out
    /\ CASE impl = "Property_Validator" ->
                out' = sanitize_animation_property_value(key, out)
         [] impl = "FromTo" ->
                /\ FromTo_is_valid_property(key, out)
                /\ out' = FromTo_sanitize_property_value(key, out)
         [] impl = "Set" ->
                /\ Set_is_valid_property(key, out)
                /\ out' \in Set_sanitize_property_value(key, out)
    /\ UNCHANGED <<impl, key, raw, arg, result>>
    /\ UNCHANGED frontendVars

\* Animation_Validator::validate_property( key, raw ) and
\* Property_Validator::sanitize_animation_property_value( key, raw ) on one
\* value: result holds the errors added, out the sanitized value
ValidateAndSanitize ==
    /\ pc = "input"
    /\ key \in RuleProperties
    /\ pc' = IF validate_property(key, raw) = <<>> THEN "accepted" ELSE "rejected"
    /\ impl' = "Animation_Validator"
    /\ result' = validate_property(key, raw)
    /\ out' = sanitize_animation_property_value(key, raw)
    /\ UNCHANGED <<key, raw, prev, arg>>
    /\ UNCHANGED frontendVars

\* the three sanitizers on one value: out holds the value of
\* Property_Validator, prev that of FromTo_Animation_Strategy and result
\* that of Set_Animation_Strategy
CompareSanitizers ==
    /\ pc = "input"
    /\ pc' = "compared"
    /\ impl' = "all"
    /\ out' = sanitize_animation_property_value(key, raw)
    /\ prev' = FromTo_sanitize_property_value(key, raw)
    /\ result' \in Set_sanitize_property_value(key, raw)
    /\ UNCHANGED <<key, raw, arg>>
    /\ UNCHANGED frontendVars

NextSanitize ==
    \/ Sanitize
    \/ FromToSanitize
    \/ SetSanitize
    \/ Resanitize
    \/ ValidateAndSanitize
    \/ CompareSanitizers

SpecSanitize == InitSanitize /\ [][NextSanitize]_vars


(***************************************************************************)
(* Properties of the sanitizers.                                           *)
(***************************************************************************)
Sanitized == pc \in {"sanitized", "resanitized"}

FloatWithin(v, lo, hi) ==
    v.t = "float" /\ FloatLe(lo, v.f) /\ FloatLe(v.f, hi)

\* C1: every sanitizer's output for a numeric key lies in the documented
\* closed interval: rotation in [-360, 360], scale in [0.1, 10], opacity in
\* [0, 1] (Property_Validator and both strategies) and zIndex in
\* [-999, 999] (the Set strategy); rotation 9000 gives 360, -9000 gives -360.
C1_RangeInvariant ==
    Sanitized =>
        /\ key = "rotation" => FloatWithin(out, Dec(-360, 0), Dec(360, 0))
        /\ key = "scale" => FloatWithin(out, Dec(1, -1), Dec(10, 0))
        /\ key = "opacity" => FloatWithin(out, Dec(0, 0), Dec(1, 0))
        /\ (key = "zIndex" /\ impl = "Set") =>
                out.t = "int" /\ -999 <= out.i /\ out.i <= 999
        /\ (pc = "sanitized" /\ key = "rotation" /\ raw = PInt(9000)) =>
                out = PFloat(360, 0)
        /\ (pc = "sanitized" /\ key = "rotation" /\ raw = PInt(-9000)) =>
                out = PFloat(-360, 0)

C1_Witness ==
    /\ pc = "sanitized"
    /\ impl = "Property_Validator"
    /\ key = "scale"
    /\ raw = PStr(<<"-", "5">>)
    /\ out = PFloat(1, -1)

\* C2: sanitizing a sanitized value again with Property_Validator returns
\* the same value, for every allow-listed key.
C2_Idempotent ==
    (pc = "resanitized" /\ impl = "Property_Validator" /\ key \in PropertyKeys)
        => out = prev

\* the raw value is of no accepted form for the key
NotAccepted(k, v) ==
    CASE k \in {"x", "y"} ->
            /\ ~is_numeric(v)
            /\ ~(v.t = "string" /\ PregMatchAnchored(CSS_UNIT_PATTERN, v.s))
      [] k \in {"rotation", "scale", "opacity"} ->
            \/ v.t \in {"null", "bool", "array"}
            \/ v.t = "string" /\ ~IsNumericStr(v.s)
      [] k \in {"backgroundColor", "color"} ->
            \/ v.t # "string"
            \/ /\ ~PregMatchAnchored(HEX_COLOR_PATTERN, v.s)
               /\ ~PregMatchAnchored(RGB_COLOR_PATTERN, v.s)
               /\ ~PregMatchAnchored(HSL_COLOR_PATTERN, v.s)
               /\ strtolower(v.s) \notin ColorKeywords

Fallback(k) ==
    CASE k \in {"x", "y"} -> PStr(<<"0", "p", "x">>)
      [] k = "rotation" -> PFloat(0, 0)
      [] k \in {"scale", "opacity"} -> PFloat(1, 0)
      [] k \in {"backgroundColor", "color"} -> PStr(S_transparent)

S_not_a_color == <<"n", "o", "t", "-", "a", "-", "c", "o", "l", "o", "r">>

\* C8: for x, y, rotation, scale, opacity, backgroundColor and color,
\* Property_Validator's sanitizer returns a value for a raw value of any
\* type (the call has no failing path: its result is always a string for
\* x, y and the colors and a float for rotation, scale and opacity), and
\* returns the documented fallback when the raw value is of no accepted
\* form.
C8_FallbackOnInvalid ==
    (pc = "sanitized" /\ impl = "Property_Validator"
     /\ key \in PropertyKeys \ {"width", "height"}) =>
        /\ out.t = (IF key \in {"rotation", "scale", "opacity"}
                    THEN "float" ELSE "string")
        /\ NotAccepted(key, raw) => out = Fallback(key)

C8_Witness ==
    /\ pc = "sanitized"
    /\ impl = "Property_Validator"
    /\ key = "backgroundColor"
    /\ raw = PStr(S_not_a_color)
    /\ out = PStr(S_transparent)

\* C9: for width and height the sanitizers accept only a number or a
\* string matching the sign-less CSS unit pattern and return "auto" for
\* everything else.
C9_SizeAutoFallback ==
    (pc = "sanitized" /\ key \in {"width", "height"}
     /\ ~is_numeric(raw)
     /\ ~(raw.t = "string" /\ PregMatchAnchored(POSITIVE_CSS_UNIT_PATTERN, raw.s)))
        => out = PStr(S_auto)

(***************************************************************************)
(* Configurations handed to Animation_Validator::validate: the minimal     *)
(* valid configuration with up to MaxChanges of its fields replaced.       *)
(***************************************************************************)
\* a string of n characters
LongString(n) == [i \in 1..n |-> "a"]

\* the timing array is built from the fields duration .. ease
FromFields == [t |-> "fields"]

BaseConfig ==
    [enabled |-> PBool(TRUE), type |-> PStr(S_to), trigger |-> PStr(S_pageload),
     properties |-> PArrayOf(<<Entry(KStr("opacity"), PFloat(5, -1))>>),
     timing |-> FromFields, duration |-> PInt(1), delay |-> Absent,
     repeat |-> Absent, yoyo |-> Absent, ease |-> PStr(S_power1_out),
     selector |-> Absent, timeline |-> Absent]

\* a valid configuration with every timing field and the selector set
FullConfig ==
    [BaseConfig EXCEPT !.duration = PFloat(1, 0), !.delay = PFloat(0, 0),
                       !.repeat = PInt(0), !.yoyo = PBool(FALSE),
                       !.selector = PStr(S_my_class_p)]

ConfigFields == DOMAIN BaseConfig

Alternatives(f) ==
    CASE f = "enabled" -> {Absent, PNull, PBool(FALSE), PStr(S_abc), PInt(1)}
      [] f = "type" -> {Absent, PStr(S_fromTo), PStr(S_bogus), PInt(5)}
      [] f = "trigger" -> {Absent, PStr(S_scroll), PStr(S_bogus), PInt(5)}
      [] f = "properties" ->
            {Absent, PStr(S_abc), PArray,
             PArrayOf(<<Entry(KStr("opacity"), PInt(5))>>),
             PArrayOf(<<Entry(KStr("x"), PStr(<<"5", "p", "x">>)),
                        Entry(KStr("y"), PInt(-5))>>),
             PArrayOf(<<Entry(KStr("bogus"), PInt(1))>>),
             PArrayOf(<<Entry(KInt(0), PInt(5))>>),
             PArrayOf(<<Entry(KStr("scale"), PStr(S_abc)),
                        Entry(KInt(0), PInt(5))>>),
             PArrayOf(<<Entry(KStr("rotation"), PStr(S_abc))>>),
             PArrayOf(<<Entry(KStr("width"), PStr(<<"-", "5", "p", "x">>))>>),
             PArrayOf(<<Entry(KStr("color"), PStr(<<"#", "f", "f", "f">>)),
                        Entry(KStr("backgroundColor"), PStr(S_red))>>),
             PArrayOf(<<Entry(KStr("scale"), PFloat(5, -2))>>)}
      [] f = "timing" -> {Absent, PNull, PStr(S_abc)}
      [] f = "duration" ->
            {Absent, PNull, PInt(0), PInt(10), PInt(11), PFloat(5, -1),
             PStr(<<"0", ".", "5">>), PStr(S_abc), PBool(TRUE)}
      [] f = "delay" ->
            {PInt(0), PInt(5), PInt(6), PInt(-1), PFloat(25, -1), PStr(S_abc)}
      [] f = "repeat" ->
            {PInt(0), PInt(3), PInt(100), PInt(101), PInt(-1), PFloat(25, -1),
             PStr(<<"2", ".", "5">>), PStr(S_abc), PBool(TRUE)}
      [] f = "yoyo" -> {PBool(TRUE), PBool(FALSE), PInt(1), PStr(S_abc)}
      [] f = "ease" -> {Absent, PStr(S_bounce_out), PStr(S_linear), PInt(5)}
      [] f = "selector" ->
            {PStr(<<>>), PStr(S_my_class_p), PStr(LongString(200)),
             PStr(LongString(201)), PInt(0), PInt(5), PBool(FALSE)}
      [] f = "timeline" ->
            {PArrayOf(<<Entry(KStr("isTimeline"), PBool(TRUE)),
                        Entry(KStr("timelineId"), PStr(S_abc))>>)}

\* the replacements of one field: <<field, value>>
FieldChanges == UNION {{<<f, a>> : a \in Alternatives(f)} : f \in ConfigFields}

RECURSIVE ConfigVariants(_)
ConfigVariants(n) ==
    IF n = 0 THEN {BaseConfig, FullConfig}
    ELSE LET fewer == ConfigVariants(n - 1)
         IN fewer \cup {[c EXCEPT ![ch[1]] = ch[2]] :
                            c \in fewer, ch \in FieldChanges}

\* the entries whose value is set
Present(entries) == SelectSeq(entries, LAMBDA en : en.v # Absent)

\* the PHP array of a configuration
BuildData(c) ==
    PArrayOf(Present(<<
        Entry(KStr("enabled"), c.enabled),
        Entry(KStr("type"), c.type),
        Entry(KStr("trigger"), c.trigger),
        Entry(KStr("properties"), c.properties),
        Entry(KStr("timing"),
              IF c.timing = FromFields
              THEN PArrayOf(Present(<<
                       Entry(KStr("duration"), c.duration),
                       Entry(KStr("delay"), c.delay),
                       Entry(KStr("repeat"), c.repeat),
                       Entry(KStr("yoyo"), c.yoyo),
                       Entry(KStr("ease"), c.ease)>>))
              ELSE c.timing),
        Entry(KStr("selector"), c.selector),
        Entry(KStr("timeline"), c.timeline)>>))

ValidatorInputs == {BuildData(c) : c \in ConfigVariants(MaxChanges)}

InitValidate ==
    /\ pc = "input"
    /\ arg \in ValidatorInputs
    /\ result = Nil
    /\ impl = "none"
    /\ key = "none"
    /\ raw = Nil
    /\ out = Nil
    /\ prev = Nil
    /\ NoFrontend

\* Animation_Validator::validate( data ) followed by get_errors()
Validate ==
    /\ pc = "input"
    /\ pc' = "validated"
    /\ impl' = "Animation_Validator"
    /\ result' = validate(arg)
    /\ UNCHANGED <<key, raw, out, prev, arg>>
    /\ UNCHANGED frontendVars

\* Validation_Exception::format_error_message
format_error_message(errors) ==
    IF errors = <<>> THEN [text |-> "Validation failed", errors |-> <<>>]
    ELSE IF Len(errors) = 1 THEN [text |-> "", errors |-> errors]
    ELSE [text |-> "Validation failed with %d errors: %s", errors |-> errors]

\* only the first error kept
from_errors_first(errors) ==
    [errors |-> SubSeq(errors, 1, 1),
     message |-> format_error_message(errors), code |-> 422]

\* Validation_Exception::from_errors: new self( $errors )
from_errors(errors) ==
    [errors |-> errors, message |-> format_error_message(errors), code |-> 422]

\* get_errors() of a Validation_Exception
get_errors(exception) == exception.errors

\* validate_or_throw( array $data ): what the call raises
validate_or_throw(data) ==
    LET Outcome(v) ==
            IF v.threw THEN [raised |-> "TypeError"]
            ELSE IF ~v.ret
            THEN [raised |-> "Validation_Exception",
                  exception |-> from_errors(v.errors)]
            ELSE [raised |-> "none"]
    IN Outcome(validate(data))

\* Animation_Validator::validate_or_throw( data )
ValidateOrThrow ==
    /\ pc = "input"
    /\ pc' = "checked"
    /\ impl' = "Animation_Validator"
    /\ result' = validate_or_throw(arg)
    /\ UNCHANGED <<key, raw, out, prev, arg>>
    /\ UNCHANGED frontendVars

NextValidate == Validate \/ ValidateOrThrow

SpecValidate == InitValidate /\ [][NextValidate]_vars

(***************************************************************************)
(* Properties of Animation_Validator.                                      *)
(***************************************************************************)
Validated == pc = "validated" /\ impl = "Animation_Validator"

\* C3: validate never raises, whatever the shape of the input array.
C3_ValidateNeverRaises == Validated => ~result.threw

Mentions(errors, field) == {i \in 1..Len(errors) : errors[i].field = field}

TopLevelRequired == {"enabled", "type", "trigger", "properties", "timing"}

\* the required fields that the input lacks
MissingFields(d) ==
    {f \in TopLevelRequired : Get(d, f) = Absent}
    \cup (IF is_array(Get(d, "timing"))
          THEN {"timing." \o f : f \in {g \in {"duration", "ease"} :
                                           Get(Get(d, "timing"), g) = Absent}}
          ELSE {})

\* the valid minimal configuration without timing.duration
MinimalWithoutDuration == BuildData([BaseConfig EXCEPT !.duration = Absent])

\* C4: for an input that lacks a required field, validate returns false and
\* an error names that field; when timing.duration is the only omission of
\* the minimal configuration, exactly one error references timing.duration.
C4_MissingFieldReported ==
    Validated =>
        /\ \A f \in MissingFields(arg) :
                /\ ~result.threw
                /\ ~result.ret
                /\ Mentions(result.errors, f) # {}
        /\ arg = MinimalWithoutDuration =>
                Cardinality(Mentions(result.errors, "timing.duration")) = 1

\* a number in the interval from lo to hi, lo excluded when loOpen
NumberIn(x, lo, hi, loOpen) ==
    /\ is_numeric(x)
    /\ IF loOpen THEN FloatLt(lo, ToFloat(x)) ELSE FloatLe(lo, ToFloat(x))
    /\ FloatLe(ToFloat(x), hi)

\* the documented rule set
Conforms(d) ==
    LET timing == Get(d, "timing")
        props == Get(d, "properties")
        sel == Get(d, "selector")
    IN  /\ is_bool(Get(d, "enabled"))
        /\ is_string(Get(d, "type")) /\ Get(d, "type").s \in RuleTypes
        /\ is_string(Get(d, "trigger")) /\ Get(d, "trigger").s \in RuleTriggers
        /\ is_array(props)
        /\ Get(d, "enabled").b => props.a # <<>>
        /\ \A i \in 1..Len(props.a) :
                /\ props.a[i].k.kt = "string"
                /\ props.a[i].k.name \in RuleProperties
                /\ validate_property(props.a[i].k.name, props.a[i].v) = <<>>
        /\ is_array(timing)
        /\ NumberIn(Get(timing, "duration"), Dec(0, 0), Dec(10, 0), TRUE)
        /\ Get(timing, "delay") \notin {Absent, PNull} =>
                NumberIn(Get(timing, "delay"), Dec(0, 0), Dec(5, 0), FALSE)
        /\ Get(timing, "repeat") \notin {Absent, PNull} =>
                /\ is_int(Get(timing, "repeat"))
                /\ 0 <= Get(timing, "repeat").i
                /\ Get(timing, "repeat").i <= 100
        /\ Get(timing, "yoyo") \notin {Absent, PNull} => is_bool(Get(timing, "yoyo"))
        /\ is_string(Get(timing, "ease")) /\ Get(timing, "ease").s \in RuleEases
        /\ sel \notin {Absent, PNull} => is_string(sel) /\ Len(sel.s) <= 200

\* C5: validate returns true with an empty error list exactly for the
\* configurations that satisfy the documented rule set.
C5_AcceptsExactlyConforming ==
    (Validated /\ ~result.threw) =>
        ((result.ret /\ result.errors = <<>>) <=> Conforms(arg))

(***************************************************************************)
(* Matching one selector with the server's or the editor's matcher.        *)
(***************************************************************************)
SelAlphabet == {"o", "N", "c", "=", " "}

SampleSelectors ==
    {S_my_class_p, <<"0">>, S_script_alert, S_SCRIPT_close, S_onclick_attr,
     S_onClick_spaced, S_JavaScript_url, S_DATA_url, S_vbscript_url,
     S_on_pattern_text, LongString(200), LongString(201), LongString(500),
     LongString(501), [i \in 1..201 |-> " "],
     S_my_class_p \o LongString(200),
     S_java_script_url, <<"d", "a", "<", "t", "a", ":">>, <<"!", "0">>,
     <<" ", "a", "!", "b", " ">>, <<"!">>}

SelectorInputs == StringsOver(SelAlphabet, MaxSelLen) \cup SampleSelectors

InitSelector ==
    /\ pc = "input"
    /\ arg \in {PStr(w) : w \in SelectorInputs}
    /\ result = Nil
    /\ impl = "none"
    /\ key = "none"
    /\ raw = Nil
    /\ out = Nil
    /\ prev = Nil
    /\ NoFrontend

\* Property_Validator::validate_css_selector( arg )
ServerValidateSelector ==
    /\ pc = "input"
    /\ pc' = "matched"
    /\ impl' = "Property_Validator"
    /\ result' = [accepted |-> validate_css_selector(arg.s)]
    /\ UNCHANGED <<key, raw, out, prev, arg>>
    /\ UNCHANGED frontendVars

\* SelectorControl.validateSelector( arg )
ClientValidateSelector ==
    /\ pc = "input"
    /\ pc' = "matched"
    /\ impl' = "SelectorControl"
    /\ result' = [accepted |-> validateSelector(arg.s)]
    /\ UNCHANGED <<key, raw, out, prev, arg>>
    /\ UNCHANGED frontendVars

\* Property_Validator::sanitize_css_selector( arg )
ServerSanitizeSelector ==
    /\ pc = "input"
    /\ pc' = "sanitized"
    /\ impl' = "Property_Validator"
    /\ out' = PStr(sanitize_css_selector(arg.s))
    /\ UNCHANGED <<key, raw, result, prev, arg>>
    /\ UNCHANGED frontendVars

NextSelector ==
    ServerValidateSelector \/ ClientValidateSelector \/ ServerSanitizeSelector

SpecSelector == InitSelector /\ [][NextSelector]_vars

\* the selector contains a denylisted pattern, in any letter case
DenylistHit(s) ==
    \/ \E w \in {S_javascript_, S_data_, S_vbscript_, S_script_open, S_script_close} :
            RegexSearch(Lit(w), strtolower(s))
    \/ RegexSearch(Cat(<<Lit(S_on), Plus(Chr(WordChar)), Star(Chr(WhiteSpace)),
                         Lit(<<"=">>)>>), strtolower(s))

\* C7: both selector matchers reject every selector that contains a
\* denylisted pattern (javascript:, data:, vbscript:, on<word>=, <script,
\* </script, in any letter case) or is longer than 200 characters, and
\* accept the ordinary selector '.my-class > p'.
C7_SelectorMatcher ==
    pc = "matched" =>
        /\ (DenylistHit(arg.s) \/ Len(arg.s) > 200) => ~result.accepted
        /\ arg.s = S_my_class_p => result.accepted

(***************************************************************************)
(* One configuration of the editor checked by each of the validators.      *)
(***************************************************************************)
EditorProperties ==
    {PArray,
     PArrayOf(<<Entry(KStr("opacity"), PFloat(5, -1))>>),
     PArrayOf(<<Entry(KStr("opacity"), PInt(5))>>),
     PArrayOf(<<Entry(KStr("x"), PStr(<<"5", "p", "x">>))>>),
     PArrayOf(<<Entry(KStr("x"), PStr(S_abc)), Entry(KStr("y"), PInt(5))>>),
     PArrayOf(<<Entry(KStr("y"), PStr(<<>>))>>)}

EditorConfigs ==
    {BuildData([BaseConfig EXCEPT !.enabled = PBool(e), !.properties = p,
                                  !.duration = d, !.delay = dl,
                                  !.repeat = PInt(0), !.yoyo = PBool(FALSE),
                                  !.selector = s]) :
        e \in BOOLEAN, p \in EditorProperties,
        d \in {PInt(0), PInt(1), PFloat(5, -1)},
        dl \in {PInt(-1), PInt(0), PInt(1)},
        s \in {Absent, PStr(<<>>), PStr(S_my_class_p), PStr(S_script_alert),
               PStr(LongString(201))}}

InitEditor ==
    /\ pc = "input"
    /\ arg \in EditorConfigs
    /\ result = Nil
    /\ impl = "none"
    /\ key = "none"
    /\ raw = Nil
    /\ out = Nil
    /\ prev = Nil
    /\ NoFrontend

\* new AnimationControlsManager( { config: arg } ).validateConfiguration()
ManagerValidate ==
    /\ pc = "input"
    /\ pc' = "validated"
    /\ impl' = "AnimationControlsManager"
    /\ result' = [threw |-> FALSE, ret |-> validateConfiguration(arg) = <<>>,
                  errors |-> validateConfiguration(arg)]
    /\ UNCHANGED <<key, raw, out, prev, arg>>
    /\ UNCHANGED frontendVars

\* AnimationValidator.validateConfig( arg )
ClientValidate ==
    /\ pc = "input"
    /\ pc' = "validated"
    /\ impl' = "AnimationValidator"
    /\ result' = [threw |-> FALSE, ret |-> validateConfig(arg) = <<>>,
                  errors |-> validateConfig(arg)]
    /\ UNCHANGED <<key, raw, out, prev, arg>>
    /\ UNCHANGED frontendVars

NextEditor == Validate \/ ManagerValidate \/ ClientValidate

SpecEditor == InitEditor /\ [][NextEditor]_vars

\* C6: each of the three validators reports an error for a configuration
\* with enabled == true and an empty properties map.
C6_EmptyPropertiesRejected ==
    (pc = "validated" /\ Get(arg, "enabled") = PBool(TRUE)
     /\ Get(arg, "properties") = PArray)
        => (~result.ret /\ result.errors # <<>>)

(***************************************************************************)
(* Constructing an Animation_Config from a raw array.                      *)
(***************************************************************************)
InitConfig ==
    /\ pc = "input"
    /\ arg \in ValidatorInputs
    /\ result = Nil
    /\ impl = "none"
    /\ key = "none"
    /\ raw = Nil
    /\ out = Nil
    /\ prev = Nil
    /\ NoFrontend

\* new Animation_Config( arg )
Construct ==
    /\ pc = "input"
    /\ pc' = "constructed"
    /\ impl' = "Animation_Config"
    /\ result' = construct(arg)
    /\ UNCHANGED <<key, raw, out, prev, arg>>
    /\ UNCHANGED frontendVars

\* $config->to_array() of the object that was constructed
Serialize ==
    /\ pc = "constructed"
    /\ ~result.threw
    /\ pc' = "serialized"
    /\ out' = to_array(result)
    /\ UNCHANGED <<impl, key, raw, prev, arg, result>>
    /\ UNCHANGED frontendVars

NextConfig == Construct \/ Serialize

SpecConfig == InitConfig /\ [][NextConfig]_vars

\* the field holds one of the allowed names
ValidName(x, names) == x.t = "string" /\ x.s \in names

\* C10: constructing an Animation_Config never throws; a missing or invalid
\* type, trigger or ease of any PHP type becomes the default 'to',
\* 'pageload', 'power1.out'.
C10_ConstructNeverThrows ==
    pc = "constructed" =>
        /\ ~result.threw
        /\ ~ValidName(Get(arg, "type"), RuleTypes) => result.type = S_to
        /\ ~ValidName(Get(arg, "trigger"), RuleTriggers) =>
                result.trigger = S_pageload
        /\ (\/ ~is_array(Get(arg, "timing"))
            \/ ~ValidName(Get(Get(arg, "timing"), "ease"), ConfigEases)) =>
                result.ease = S_power1_out

\* the keys of an array
KeysOf(x) == {x.a[i].k : i \in 1..Len(x.a)}

\* equal values; an integer equals the float of the same value
SameValue(x, y) ==
    IF x.t \in {"int", "float"} /\ y.t \in {"int", "float"}
    THEN FloatCmp(CastFloat(x), CastFloat(y)) = 0
    ELSE x = y

\* objects with the same keys and the same value under each key
SameObject(x, y) ==
    /\ is_array(x) /\ is_array(y)
    /\ KeysOf(x) = KeysOf(y)
    /\ \A k \in KeysOf(x) : SameValue(Get(x, k.name), Get(y, k.name))

DeepEqual(x, y) ==
    /\ KeysOf(x) = KeysOf(y)
    /\ \A k \in KeysOf(x) :
            IF k.name = "timing"
            THEN SameObject(Get(x, "timing"), Get(y, "timing"))
            ELSE SameValue(Get(x, k.name), Get(y, k.name))

\* the validator accepts the configuration
ValidSerialized(d) == ~validate(d).threw /\ validate(d).ret

\* C11: an Animation_Config built from a valid serialized configuration
\* serializes, with to_array, to an object deep-equal to that configuration:
\* the same keys and the same values.
C11_RoundTrip ==
    (pc = "serialized" /\ ValidSerialized(arg)) => DeepEqual(arg, out)

\* the round trip of the configuration that has every field of to_array
C11_FullConfigRoundTrips ==
    (pc = "serialized" /\ arg = BuildData(FullConfig)) => DeepEqual(arg, out)

(***************************************************************************)
(* The rendered page: BlockExtensionService::add_animation_data writes the *)
(* persisted attribute of a block into the data attributes of its element, *)
(* FrontendController reads them back and AnimationService hands the       *)
(* configuration to the animation engine.  A timeline of the engine is     *)
(*   [block, origin, tween, killed, scrollTrigger, played]                 *)
(* where tween holds the variables of the to / from / fromTo / set call.   *)
(***************************************************************************)
Blocks == {"b1", "b2"}

\* the elements of the page in document order
BlockOrder == <<"b1", "b2">>

\* wp_json_encode( $v ) read back by JSON.parse: a list stays an array, any
\* other array becomes an object whose keys are strings
RECURSIVE wp_json_encode(_)
wp_json_encode(v) ==
    IF v.t # "array" THEN v
    ELSE LET IsList == \A i \in 1..Len(v.a) : v.a[i].k = KInt(i - 1)
         IN PArrayOf([i \in 1..Len(v.a) |->
                Entry(IF IsList \/ v.a[i].k.kt = "string" THEN v.a[i].k
                      ELSE KStr(ToString(v.a[i].k.idx)),
                      wp_json_encode(v.a[i].v))])

\* an element without animation attributes
NoData == [animation |-> Absent, trigger |-> Absent, blockId |-> Absent]

\* BlockExtensionService::add_animation_data: the data attributes of the
\* first element of the block content
add_animation_data(block, id) ==
    IF \/ ~Truthy(block.gsapAnimation)
       \/ ~Truthy(GetOr(block.gsapAnimation, "enabled", PBool(FALSE)))
       \/ ~block.hasElement
    THEN NoData
    ELSE [animation |-> wp_json_encode(block.gsapAnimation),
          trigger |-> PStr(CastString(GetOr(block.gsapAnimation, "trigger",
                                            PStr(S_pageload)))),
          blockId |-> id]

\* FrontendController.extractAnimationConfig
extractAnimationConfig(element) ==
    IF element.animation = Absent THEN PNull ELSE element.animation

\* o[ name ] of JavaScript, for an o that is not null or undefined
Prop(o, name) == IF o.t = "array" THEN Get(o, name) ELSE Absent

\* reading a property of null or undefined raises a TypeError
Nullish(o) == o.t \in {"absent", "null"}

\* FrontendController.isValidConfig
isValidConfig(config) ==
    /\ config # PNull
    /\ JsTruthy(Prop(config, "enabled"))
    /\ is_string(Prop(config, "type"))
    /\ is_string(Prop(config, "trigger"))

\* the selectors of the model that element.querySelectorAll can parse
ParsableSelectors == {S_my_class_p}

\* AnimationService.prepareFromProperties
prepareFromProperties ==
    <<Entry(KStr("x"), PInt(0)), Entry(KStr("y"), PInt(0)),
      Entry(KStr("rotation"), PInt(0)), Entry(KStr("scale"), PInt(1)),
      Entry(KStr("opacity"), PInt(1))>>

\* AnimationService.prepareAnimationProperties, for a config that has
\* timing and properties
prepareAnimationProperties(config) ==
    LET Collect(props, timing) ==
            Present(<<
                Entry(KStr("duration"), Prop(timing, "duration")),
                Entry(KStr("ease"), Prop(timing, "ease")),
                Entry(KStr("x"), Prop(props, "x")),
                Entry(KStr("y"), Prop(props, "y")),
                Entry(KStr("rotation"), Prop(props, "rotation")),
                Entry(KStr("scale"), Prop(props, "scale")),
                Entry(KStr("opacity"), Prop(props, "opacity")),
                Entry(KStr("backgroundColor"),
                      IF JsTruthy(Prop(props, "backgroundColor"))
                      THEN Prop(props, "backgroundColor") ELSE Absent)>>)
    IN Collect(Prop(config, "properties"), Prop(config, "timing"))

\* AnimationService.applyAnimationToTimeline: the call made on the timeline
applyAnimationToTimeline(config) ==
    LET Call(type) ==
            IF type.t = "string" /\ type.s \in {S_to, S_from, S_set}
            THEN [method |-> type.s, fromVars |-> <<>>,
                  vars |-> prepareAnimationProperties(config)]
            ELSE IF type = PStr(S_fromTo)
            THEN [method |-> S_fromTo, fromVars |-> prepareFromProperties,
                  vars |-> prepareAnimationProperties(config)]
            ELSE Nil
    IN Call(Prop(config, "type"))

\* gsap.timeline( { ..., paused: true } )
NewTimeline(b, origin) ==
    [block |-> b, origin |-> origin, tween |-> Nil, killed |-> FALSE,
     scrollTrigger |-> "none", played |-> FALSE]

\* buildTimeline .. storeActiveAnimation .. play, common to createPreview
\* and createProductionAnimation; st is [active, tls].  A TypeError or a
\* SyntaxError leaves the method where it is raised.
BuildAnimation(st, b, config, origin, scroll, play) ==
    LET Created == [st EXCEPT !.tls = Append(@, NewTimeline(b, origin))]
        Stored ==
            [active |-> [st.active EXCEPT ![b] = Len(st.tls) + 1],
             tls |-> Append(st.tls,
                        [NewTimeline(b, origin) EXCEPT
                            !.tween = applyAnimationToTimeline(config),
                            !.scrollTrigger = IF scroll THEN "live" ELSE "none",
                            !.played = play])]
    IN  IF Nullish(Prop(config, "timing")) THEN st
        ELSE IF /\ JsTruthy(Prop(config, "selector"))
                /\ Prop(config, "selector").t = "string"
                /\ Prop(config, "selector").s \notin ParsableSelectors
        THEN Created
        ELSE IF Nullish(Prop(config, "properties")) THEN Created
        ELSE Stored

\* AnimationService.createProductionAnimation
createProductionAnimation(st, b, config) ==
    BuildAnimation(st, b, config, "production",
                   Prop(config, "trigger") = PStr(S_scroll),
                   Prop(config, "trigger") = PStr(S_pageload))

\* AnimationService.createPreview; attached: the element has a parent node
createPreview(st, b, config, attached) ==
    IF \/ ~attached
       \/ ~JsTruthy(Prop(config, "enabled"))
       \/ ~JsTruthy(Prop(config, "type"))
       \/ ~JsTruthy(Prop(config, "trigger"))
    THEN st
    ELSE BuildAnimation(st, b, config, "preview", FALSE, TRUE)

\* AnimationService.killAnimation
killAnimation(animation) ==
    [animation EXCEPT !.killed = TRUE,
                      !.scrollTrigger = IF @ = "live" THEN "killed" ELSE @]

\* AnimationService.stopPreview
stopPreview(st, b) ==
    IF st.active[b] = 0 THEN st
    ELSE [active |-> [st.active EXCEPT ![b] = 0],
          tls |-> [st.tls EXCEPT ![st.active[b]] = killAnimation(@)]]

\* AnimationService.destroyAll
destroyAll(st) ==
    [active |-> [b \in Blocks |-> 0],
     tls |-> [i \in 1..Len(st.tls) |->
                 IF \E b \in Blocks : st.active[b] = i
                 THEN killAnimation(st.tls[i]) ELSE st.tls[i]]]

\* FrontendController.processAnimatedElement
processAnimatedElement(st, b, element) ==
    IF isValidConfig(extractAnimationConfig(element))
    THEN createProductionAnimation(st, b, extractAnimationConfig(element))
    ELSE st

\* FrontendController.initializeAnimations over the elements from..last
RECURSIVE initializeAnimations(_, _, _)
initializeAnimations(st, elements, from) ==
    IF from > Len(BlockOrder) THEN st
    ELSE initializeAnimations(
             IF elements[BlockOrder[from]].animation = Absent THEN st
             ELSE processAnimatedElement(st, BlockOrder[from],
                                         elements[BlockOrder[from]]),
             elements, from + 1)

\* the service as the pair the operators above work on
Service == [active |-> activeAnimations, tls |-> timelines]

(***************************************************************************)
(* The persisted blocks of the model.                                      *)
(***************************************************************************)
StoredConfigs ==
    {PNull,
     BuildData(BaseConfig),
     BuildData(FullConfig),
     BuildData([BaseConfig EXCEPT !.enabled = PBool(FALSE)]),
     BuildData([BaseConfig EXCEPT !.trigger = PStr(S_scroll)]),
     BuildData([BaseConfig EXCEPT !.type = PStr(S_fromTo)]),
     BuildData([BaseConfig EXCEPT !.type = PStr(S_bogus)]),
     BuildData([BaseConfig EXCEPT !.type = PInt(5)]),
     BuildData([BaseConfig EXCEPT !.properties =
         PArrayOf(<<Entry(KStr("rotation"), PInt(9000))>>)]),
     BuildData([BaseConfig EXCEPT !.properties =
         PArrayOf(<<Entry(KStr("x"), PStr(S_abc))>>)]),
     BuildData([BaseConfig EXCEPT !.properties = Absent]),
     BuildData([BaseConfig EXCEPT !.timing = Absent]),
     BuildData([BaseConfig EXCEPT !.selector = PStr(<<">">>)])}

StoredBlocks ==
    {[gsapAnimation |-> c, hasElement |-> TRUE] : c \in StoredConfigs}
    \cup {[gsapAnimation |-> BuildData(BaseConfig), hasElement |-> FALSE]}

\* the configurations the editor previews
PreviewConfigs ==
    {wp_json_encode(BuildData(BaseConfig)),
     wp_json_encode(BuildData([BaseConfig EXCEPT !.enabled = PBool(FALSE)])),
     wp_json_encode(BuildData([BaseConfig EXCEPT !.properties = Absent]))}

InitFrontend ==
    /\ pc = "persisted"
    /\ impl = "none"
    /\ key = "none"
    /\ raw = Nil
    /\ out = Nil
    /\ prev = Nil
    /\ arg = Nil
    /\ result = Nil
    /\ blocks \in [Blocks -> StoredBlocks]
    /\ dom = [b \in Blocks |-> NoData]
    /\ activeAnimations = [b \in Blocks |-> 0]
    /\ timelines = <<>>

\* the render_block filter on every block of the page
RenderPage ==
    /\ pc = "persisted"
    /\ pc' = "rendered"
    /\ dom' = [b \in Blocks |-> add_animation_data(blocks[b], b)]
    /\ UNCHANGED <<blocks, activeAnimations, timelines>>
    /\ UNCHANGED <<impl, key, raw, out, prev, arg, result>>

\* FrontendController.initializeOnDOMReady
InitializeOnDOMReady ==
    /\ pc = "rendered"
    /\ pc' = "initialized"
    /\ activeAnimations' = initializeAnimations(Service, dom, 1).active
    /\ timelines' = initializeAnimations(Service, dom, 1).tls
    /\ UNCHANGED <<blocks, dom>>
    /\ UNCHANGED <<impl, key, raw, out, prev, arg, result>>

\* FrontendController.handleIntersectionChanges with one entry, on an
\* element the observer observes
HandleIntersectionChanges(b, isIntersecting) ==
    /\ pc = "initialized"
    /\ dom[b].trigger = PStr(S_scroll)
    /\ activeAnimations' =
           IF isIntersecting THEN stopPreview(Service, b).active
           ELSE activeAnimations
    /\ timelines' =
           IF isIntersecting THEN stopPreview(Service, b).tls ELSE timelines
    /\ UNCHANGED <<blocks, dom>>
    /\ UNCHANGED validationVars

\* FrontendController.reinitialize
Reinitialize ==
    /\ pc = "initialized"
    /\ Len(timelines) + Len(BlockOrder) <= MaxTimelines
    /\ activeAnimations' =
           initializeAnimations(destroyAll(Service), dom, 1).active
    /\ timelines' = initializeAnimations(destroyAll(Service), dom, 1).tls
    /\ UNCHANGED <<blocks, dom>>
    /\ UNCHANGED validationVars

\* FrontendController.cleanupBeforeUnload
CleanupBeforeUnload ==
    /\ pc = "initialized"
    /\ pc' = "unloaded"
    /\ activeAnimations' = destroyAll(Service).active
    /\ timelines' = destroyAll(Service).tls
    /\ UNCHANGED <<blocks, dom>>
    /\ UNCHANGED <<impl, key, raw, out, prev, arg, result>>

\* controller.getAnimationService().createPreview( { element, config } )
CreatePreview(b, config, attached) ==
    /\ pc = "initialized"
    /\ Len(timelines) < MaxTimelines
    /\ activeAnimations' = createPreview(Service, b, config, attached).active
    /\ timelines' = createPreview(Service, b, config, attached).tls
    /\ UNCHANGED <<blocks, dom>>
    /\ UNCHANGED validationVars

\* controller.getAnimationService().createProductionAnimation( element, config )
CreateProductionAnimation(b, config) ==
    /\ pc = "initialized"
    /\ Len(timelines) < MaxTimelines
    /\ activeAnimations' = createProductionAnimation(Service, b, config).active
    /\ timelines' = createProductionAnimation(Service, b, config).tls
    /\ UNCHANGED <<blocks, dom>>
    /\ UNCHANGED validationVars

\* controller.getAnimationService().stopPreview( b )
StopPreview(b) ==
    /\ pc = "initialized"
    /\ activeAnimations' = stopPreview(Service, b).active
    /\ timelines' = stopPreview(Service, b).tls
    /\ UNCHANGED <<blocks, dom>>
    /\ UNCHANGED validationVars

\* controller.getAnimationService().destroyAll()
DestroyAll ==
    /\ pc = "initialized"
    /\ activeAnimations' = destroyAll(Service).active
    /\ timelines' = destroyAll(Service).tls
    /\ UNCHANGED <<blocks, dom>>
    /\ UNCHANGED validationVars

NextFrontend ==
    \/ RenderPage
    \/ InitializeOnDOMReady
    \/ \E b \in Blocks, isIntersecting \in BOOLEAN :
            HandleIntersectionChanges(b, isIntersecting)
    \/ Reinitialize
    \/ CleanupBeforeUnload
    \/ \E b \in Blocks, config \in PreviewConfigs, attached \in BOOLEAN :
            CreatePreview(b, config, attached)
    \/ \E b \in Blocks, config \in PreviewConfigs :
            CreateProductionAnimation(b, config)
    \/ \E b \in Blocks : StopPreview(b)
    \/ DestroyAll

SpecFrontend == InitFrontend /\ [][NextFrontend]_vars

\* the per-key sanitizer leaves the value as it is
IsSanitizedValue(property, value) ==
    SameValue(sanitize_animation_property_value(property, value), value)

\* the keys of an engine call that carry property values
AnimatedKeys == {"x", "y", "rotation", "scale", "opacity", "backgroundColor"}

\* C12: no unsanitized configuration reaches the animation engine: every
\* property value of an engine call made for a rendered block is a value its
\* per-key sanitizer has produced (the path calls no validator).
C12_SanitizedBeforeEngine ==
    pc \in {"initialized", "unloaded"} =>
        \A i \in 1..Len(timelines) :
            (timelines[i].origin = "production" /\ timelines[i].tween # Nil) =>
                \A j \in 1..Len(timelines[i].tween.vars) :
                    timelines[i].tween.vars[j].k.name \in AnimatedKeys =>
                        IsSanitizedValue(timelines[i].tween.vars[j].k.name,
                                         timelines[i].tween.vars[j].v)

\* C13: at most one animation is active per block identifier: no two
\* timelines of one identifier are un-killed at the same time, because
\* starting an animation kills the one the identifier already had.
C13_AtMostOneActive ==
    \A i \in 1..Len(timelines) : \A j \in 1..Len(timelines) :
        (i < j /\ timelines[i].block = timelines[j].block) =>
            (timelines[i].killed \/ timelines[j].killed)

\* C20: once the production animation of an element with trigger 'scroll'
\* exists, an intersection event reporting the element as intersecting
\* leaves the animation in activeAnimations and kills neither its timeline
\* nor its scroll trigger.
C20_ScrollAnimationSurvives ==
    [][\A b \in Blocks :
        (/\ HandleIntersectionChanges(b, TRUE)
         /\ activeAnimations[b] # 0
         /\ timelines[activeAnimations[b]].scrollTrigger = "live")
        => /\ activeAnimations'[b] = activeAnimations[b]
           /\ ~timelines'[activeAnimations[b]].killed
           /\ timelines'[activeAnimations[b]].scrollTrigger = "live"]_vars

(***************************************************************************)
(* FromTo_Animation_Strategy::generate_animation_data: the 'from' values   *)
(* derived from the target values, and the sanitized 'to' values.          *)
(***************************************************************************)
\* /^(-?\d+(?:\.\d+)?)(px|em|rem|%|vw|vh)$/
MOVEMENT_UNIT_PATTERN == SIGNED_CSS_UNIT_PATTERN

\* $matches[1] of a string that matches MOVEMENT_UNIT_PATTERN
MovementNumber(s) == SubSeq(s, 1, SkipSet(s, 1, Digit \cup {"-", "."}) - 1)

\* $matches[2] of a string that matches MOVEMENT_UNIT_PATTERN; the $ of the
\* pattern lets a final newline pass, outside the group
MovementUnit(s) ==
    SubSeq(s, SkipSet(s, 1, Digit \cup {"-", "."}),
           IF s[Len(s)] = "\n" THEN Len(s) - 1 ELSE Len(s))

\* (string) ( $numeric * -1 ); negative: $numeric carries a minus sign, which
\* decides between "0" and "-0" for a zero
NegatedToStr(d, negative) ==
    IF d.m = 0 THEN (IF negative THEN <<"0">> ELSE <<"-", "0">>)
    ELSE FloatToStr([m |-> -d.m, e |-> d.e])

\* the sum of two decimals
DecAdd(a, b) ==
    LET Sum(e) == Dec(a.m * Pow10(a.e - e) + b.m * Pow10(b.e - e), e)
    IN Sum(IF a.e < b.e THEN a.e ELSE b.e)

calculate_opposite_movement(value) ==
    IF is_numeric(value)
    THEN PStr(NegatedToStr(ToFloat(value),
                           value.t = "string" /\ NumParse(value.s).neg)
              \o S_px)
    ELSE IF is_string(value) /\ PregMatchAnchored(MOVEMENT_UNIT_PATTERN, value.s)
    THEN PStr(NegatedToStr(StrToFloat(MovementNumber(value.s)),
                           NumParse(MovementNumber(value.s)).neg)
              \o MovementUnit(value.s))
    ELSE PStr(S_0px)

calculate_opposite_rotation(value) ==
    LET Opposite(numeric) ==
            IF numeric.m > 0 THEN DecAdd(numeric, Dec(-360, 0))
            ELSE DecAdd(numeric, Dec(360, 0))
    IN PFloatOf(Opposite(IF is_numeric(value) THEN ToFloat(value)
                         ELSE Dec(0, 0)))

calculate_opposite_scale(value) ==
    LET Opposite(numeric) ==
            IF FloatLt(Dec(1, 0), numeric) THEN PFloat(1, -1) ELSE PFloat(2, 0)
    IN Opposite(IF is_numeric(value) THEN ToFloat(value) ELSE Dec(1, 0))

calculate_opposite_opacity(value) ==
    LET Opposite(numeric) ==
            IF FloatLt(Dec(5, -1), numeric) THEN PFloat(0, 0) ELSE PFloat(1, 0)
    IN Opposite(IF is_numeric(value) THEN ToFloat(value) ELSE Dec(1, 0))

generate_from_value(k, value) ==
    CASE k \in {"x", "y"} -> calculate_opposite_movement(value)
      [] k = "rotation" -> calculate_opposite_rotation(value)
      [] k = "scale" -> calculate_opposite_scale(value)
      [] k = "opacity" -> calculate_opposite_opacity(value)
      [] k \in {"backgroundColor", "color"} -> PStr(S_transparent)
      [] k \in {"width", "height"} -> PStr(S_0px)
      [] OTHER -> value

\* the entries of $raw_properties that pass is_valid_property, all keys
\* being strings
ValidProperties(raw_properties) ==
    SelectSeq(raw_properties,
              LAMBDA en : FromTo_is_valid_property(en.k.name, en.v))

prepare_from_properties(raw_properties) ==
    PArrayOf([i \in 1..Len(ValidProperties(raw_properties)) |->
        Entry(ValidProperties(raw_properties)[i].k,
              generate_from_value(ValidProperties(raw_properties)[i].k.name,
                                  ValidProperties(raw_properties)[i].v))])

prepare_to_properties(raw_properties) ==
    PArrayOf([i \in 1..Len(ValidProperties(raw_properties)) |->
        Entry(ValidProperties(raw_properties)[i].k,
              FromTo_sanitize_property_value(
                  ValidProperties(raw_properties)[i].k.name,
                  ValidProperties(raw_properties)[i].v))])

FromTo_sanitize_ease(ease) ==
    IF ease \in {S_none, S_power1_out, S_power2_out, S_power3_out, S_back_out,
                 S_elastic_out, S_bounce_out, S_power1_in, S_power2_in,
                 S_power3_in, S_power1_inOut, S_power2_inOut, S_power3_inOut}
    THEN ease ELSE S_power1_out

prepare_timing(config) ==
    PArrayOf(<<
        Entry(KStr("duration"), PFloatOf(FloatMax(Dec(1, -1), config.duration))),
        Entry(KStr("delay"), IF FloatLe(config.delay, Dec(0, 0)) THEN PInt(0)
                             ELSE PFloatOf(config.delay)),
        Entry(KStr("repeat"), PInt(IF config.repeat < 0 THEN 0 ELSE config.repeat)),
        Entry(KStr("yoyo"), PBool(config.yoyo)),
        Entry(KStr("ease"), PStr(FromTo_sanitize_ease(config.ease)))>>)

\* is_valid_property( string $key, $value ) with an integer key is a
\* TypeError under strict_types
generate_animation_data(config) ==
    IF \E i \in 1..Len(config.properties.a) : config.properties.a[i].k.kt = "int"
    THEN [threw |-> TRUE]
    ELSE [threw |-> FALSE,
          type |-> S_fromTo,
          fromProperties |-> prepare_from_properties(config.properties.a),
          toProperties |-> prepare_to_properties(config.properties.a),
          timing |-> prepare_timing(config),
          trigger |-> config.trigger]

\* the target values of the model
FromToValues ==
    {PNull, PBool(TRUE), PBool(FALSE), PArray,
     PArrayOf(<<Entry(KInt(0), PInt(5))>>)}
    \cup {PInt(n) : n \in {-400, -360, -5, 0, 1, 5, 90, 360, 400, 9000}}
    \cup {PFloat(m, e) : m \in {-5, 0, 2, 5, 8, 15}, e \in {-2, -1}}
    \cup {PStr(w) : w \in
            {<<>>, <<"0">>, <<"0", ".", "0">>, <<"-", "0">>, <<"5">>,
             <<"-", "5">>, <<" ", "5">>, <<"1", "e", "3">>, <<"a", "b", "c">>,
             <<"1", "0", "0", "p", "x">>, <<"-", "5", "0", "%">>,
             <<"0", "p", "x">>, <<"1", ".", "5", "e", "m">>,
             <<"5", "p", "x", "\n">>, <<"#", "f", "f", "f">>,
             <<"r", "g", "b", "(", "1", ",", "2", ",", "3", ")">>,
             <<"r", "e", "d">>, <<"1", "0", "v", "w">>}}

FromToKeys == PropertyKeys \cup {"display"}

\* the properties of the configurations: one property, or two
FromToProperties ==
    {<<Entry(KStr(k), v)>> : k \in FromToKeys, v \in FromToValues}
    \cup {<<Entry(KStr("opacity"), v), Entry(KStr("x"), w)>> :
            v \in {PInt(0), PFloat(8, -1)}, w \in {PInt(0), PInt(100)}}
    \cup {<<>>, <<Entry(KInt(0), PInt(5))>>,
          <<Entry(KInt(0), PInt(5)), Entry(KStr("opacity"), PFloat(5, -1))>>}

\* an Animation_Config of type fromTo
FromToConfigs ==
    {[threw |-> FALSE, enabled |-> TRUE, type |-> S_fromTo,
      trigger |-> S_pageload, properties |-> PArrayOf(p),
      duration |-> t.duration, delay |-> t.delay, repeat |-> t.repeat,
      yoyo |-> FALSE, ease |-> t.ease, selector |-> PNull] :
        p \in FromToProperties,
        t \in {[duration |-> Dec(1, 0), delay |-> Dec(0, 0), repeat |-> 0,
                ease |-> S_power1_out],
               [duration |-> Dec(1, -1), delay |-> Dec(5, -1), repeat |-> -1,
                ease |-> S_bogus]}}

InitFromTo ==
    /\ pc = "config"
    /\ impl = "FromTo"
    /\ key = "none"
    /\ raw = Nil
    /\ out = Nil
    /\ prev = Nil
    /\ arg \in FromToConfigs
    /\ result = Nil
    /\ NoFrontend

\* FromTo_Animation_Strategy::generate_animation_data( $config )
GenerateAnimationData ==
    /\ pc = "config"
    /\ pc' = "generated"
    /\ out' = generate_animation_data(arg)
    /\ UNCHANGED <<impl, key, raw, prev, arg, result>>
    /\ UNCHANGED frontendVars

NextFromTo == GenerateAnimationData

SpecFromTo == InitFromTo /\ [][NextFromTo]_vars

\* two angles differ by a whole number of turns
CongruentMod360(a, b) ==
    LET WholeTurns(d) == d.e >= 0 /\ (d.m * Pow10(d.e)) % 360 = 0
    IN WholeTurns(DecAdd(a, [m |-> -b.m, e |-> b.e]))

\* C14: for a fromTo configuration with a rotation property the derived
\* 'from' rotation is the numeric target minus 360 when the target is
\* positive and plus 360 otherwise, and whatever the raw rotation, the
\* emitted 'from' rotation is congruent to the emitted 'to' rotation
\* modulo 360.
C14_RotationInverse ==
    (/\ pc = "generated"
     /\ ~out.threw
     /\ isset(out.toProperties, "rotation"))
    => /\ isset(out.fromProperties, "rotation")
       /\ is_numeric(Get(arg.properties, "rotation")) =>
            Get(out.fromProperties, "rotation").f =
                DecAdd(ToFloat(Get(arg.properties, "rotation")),
                       IF ToFloat(Get(arg.properties, "rotation")).m > 0
                       THEN Dec(-360, 0) ELSE Dec(360, 0))
       /\ CongruentMod360(Get(out.fromProperties, "rotation").f,
                          Get(out.toProperties, "rotation").f)

\* the configuration has exactly the property k, with target value v
OnlyProperty(k, v) == arg.properties.a = <<Entry(KStr(k), v)>>

\* the number a CSS length starts with, and what follows the number
LengthNumber(s) == LeadingNumber(s)
LengthUnit(s) == SubSeq(s, SkipSet(s, 1, Digit \cup {"-", "."}), Len(s))

\* a CSS length whose number is a plain decimal
PlainLength(s) == PregMatchAnchored(SIGNED_CSS_UNIT_PATTERN, s) /\ s[Len(s)] # "\n"

\* b is the length a with the magnitude negated and the same unit
NegatedLength(a, b) ==
    /\ PlainLength(a) /\ PlainLength(b)
    /\ LengthUnit(a) = LengthUnit(b)
    /\ LengthNumber(b) = [m |-> -LengthNumber(a).m, e |-> LengthNumber(a).e]

\* the targets the table of derived values is stated for: numbers, and
\* for x and y lengths with a unit
TableNumbers ==
    {PInt(n) : n \in {-5, 0, 1, 5, 90}}
    \cup {PFloat(m, e) : m \in {2, 5, 8, 15}, e \in {-1}}

TableLengths ==
    {PStr(<<"1", "0", "0", "p", "x">>), PStr(<<"-", "5", "0", "%">>),
     PStr(<<"1", ".", "5", "e", "m">>), PStr(<<"1", "0", "v", "w">>)}

\* C15: the derived 'from' value of a supplied property follows the table,
\* for every target value: x and y give the negated magnitude with the same
\* unit, opacity gives 0 above 0.5 and 1 otherwise (also for the target 0),
\* scale gives 0.1 above 1 and 2.0 otherwise, backgroundColor and color give
\* "transparent", width and height give "0px".
C15_FromValueTable ==
    (pc = "generated" /\ ~out.threw) =>
        /\ \A k \in {"x", "y"} : \A v \in TableNumbers \cup TableLengths :
              OnlyProperty(k, v) =>
                 /\ isset(out.fromProperties, k)
                 /\ NegatedLength(Get(out.toProperties, k).s,
                                  Get(out.fromProperties, k).s)
        /\ \A v \in TableNumbers :
              OnlyProperty("opacity", v) =>
                 /\ isset(out.fromProperties, "opacity")
                 /\ SameValue(Get(out.fromProperties, "opacity"),
                              IF FloatLt(Dec(5, -1), ToFloat(v))
                              THEN PInt(0) ELSE PInt(1))
        /\ \A v \in TableNumbers :
              OnlyProperty("scale", v) =>
                 /\ isset(out.fromProperties, "scale")
                 /\ SameValue(Get(out.fromProperties, "scale"),
                              IF FloatLt(Dec(1, 0), ToFloat(v))
                              THEN PFloat(1, -1) ELSE PFloat(2, 0))
        /\ \A k \in {"backgroundColor", "color"} :
              OnlyProperty(k, PStr(<<"#", "f", "f", "f">>)) =>
                 /\ isset(out.fromProperties, k)
                 /\ Get(out.fromProperties, k) = PStr(S_transparent)
        /\ \A k \in {"width", "height"} :
              \A v \in {PInt(5), PStr(<<"1", "0", "0", "p", "x">>)} :
                 OnlyProperty(k, v) =>
                    /\ isset(out.fromProperties, k)
                    /\ Get(out.fromProperties, k) = PStr(S_0px)

\* C15 for every target of the table but the number 0
C15_FromValueTableNonZero ==
    (\A k \in PropertyKeys : ~OnlyProperty(k, PInt(0))) => C15_FromValueTable

\* the keys the strategy allows
AllowListed(k) ==
    k \in {"x", "y", "rotation", "scale", "opacity", "backgroundColor",
           "color", "width", "height"}

\* C16: toProperties holds the sanitized value of every allow-listed
\* property the configuration supplies with a number as its value, the
\* number 0 included (opacity 0, x 0), and fromProperties has the same keys
\* as toProperties.
C16_ToHoldsEverySupplied ==
    (pc = "generated" /\ ~out.threw) =>
        /\ \A i \in 1..Len(arg.properties.a) :
              (/\ AllowListed(arg.properties.a[i].k.name)
               /\ arg.properties.a[i].v.t \in {"int", "float"}) =>
                 /\ isset(out.toProperties, arg.properties.a[i].k.name)
                 /\ Get(out.toProperties, arg.properties.a[i].k.name) =
                        FromTo_sanitize_property_value(
                            arg.properties.a[i].k.name, arg.properties.a[i].v)
        /\ KeysOf(out.fromProperties) = KeysOf(out.toProperties)

\* C17: validate_or_throw raises a Validation_Exception exactly when
\* validate returns false; get_errors() of the exception is the whole error
\* list of the validator, in order; a valid configuration raises nothing.
C17_ThrowsExactlyOnInvalid ==
    pc = "checked" =>
        /\ result.raised = "Validation_Exception"
              <=> (~validate(arg).threw /\ ~validate(arg).ret)
        /\ result.raised = "Validation_Exception" =>
              get_errors(result.exception) = validate(arg).errors
        /\ ValidSerialized(arg) => result.raised = "none"

C17_Witness ==
    /\ pc = "checked"
    /\ result.raised = "Validation_Exception"
    /\ Len(get_errors(result.exception)) >= 2
    /\ validate(arg).errors = get_errors(result.exception)

(***************************************************************************)
(* The editor panels: the configuration a panel renders with, and the      *)
(* partial updates of properties and timing.  arg is the block attribute   *)
(* gsapAnimation (Absent: undefined), out the configuration of the last    *)
(* render, prev the configuration the last update was made on.             *)
(***************************************************************************)
\* the keys of an object, Absent and null having none
ObjectKeys(o) == IF o.t = "array" THEN {o.a[i].k.name : i \in 1..Len(o.a)} ELSE {}

\* { ...a, ...b }
Spread(a, b) ==
    LET Entries(o) == IF o.t = "array" THEN o.a ELSE <<>>
        Kept(ea, eb) ==
            [i \in 1..Len(ea) |->
                IF ea[i].k.name \in ObjectKeys(b)
                THEN Entry(ea[i].k, Get(b, ea[i].k.name)) ELSE ea[i]]
            \o SelectSeq(eb, LAMBDA en : en.k.name \notin ObjectKeys(a))
    IN PArrayOf(Kept(Entries(a), Entries(b)))

\* the siblings dropped
SpreadWith_replace(o, k, v) == PArrayOf(<<Entry(KStr(k), v)>>)

\* { ...o, [ k ]: v }
SpreadWith(o, k, v) == Spread(o, PArrayOf(<<Entry(KStr(k), v)>>))

DEFAULT_ANIMATION_CONFIG ==
    PArrayOf(<<
        Entry(KStr("enabled"), PBool(FALSE)),
        Entry(KStr("type"), PStr(S_to)),
        Entry(KStr("trigger"), PStr(S_pageload)),
        Entry(KStr("properties"), PArray),
        Entry(KStr("timing"), PArrayOf(<<
            Entry(KStr("duration"), PFloat(5, -1)),
            Entry(KStr("delay"), PInt(0)),
            Entry(KStr("repeat"), PInt(0)),
            Entry(KStr("yoyo"), PBool(FALSE)),
            Entry(KStr("ease"), PStr(S_power1_out))>>)),
        Entry(KStr("timeline"), PArrayOf(<<
            Entry(KStr("isTimeline"), PBool(FALSE)),
            Entry(KStr("timelineId"), PStr(<<>>)),
            Entry(KStr("timelineName"), PStr(<<>>)),
            Entry(KStr("timelinePosition"),
                  PStr(<<"s", "t", "a", "r", "t">>))>>))>>)

\* AnimationPanel.getDefaultAnimationConfig
getDefaultAnimationConfig ==
    PArrayOf(SelectSeq(DEFAULT_ANIMATION_CONFIG.a,
                       LAMBDA en : en.k.name # "timeline"))

Panels == {"GSAPAnimationPanel", "AnimationPanel", "EventHandlers"}

\* the configuration the panel works on, for the attribute stored:
\*   GSAPAnimationPanel  { ...DEFAULT_ANIMATION_CONFIG, ...attributes.gsapAnimation }
\*   AnimationPanel      attributes.gsapAnimation || getDefaultAnimationConfig()
\*   EventHandlers       the gsapAnimation it is given
EffectiveConfig(panel, stored) ==
    CASE panel = "GSAPAnimationPanel" -> Spread(DEFAULT_ANIMATION_CONFIG, stored)
      [] panel = "AnimationPanel" ->
            IF JsTruthy(stored) THEN stored ELSE getDefaultAnimationConfig
      [] OTHER -> stored

\* updateAnimation / updateAnimationConfig / the setAttributes of
\* EventHandlers: the attribute written for the partial update
updateAnimation(gsapAnimation, updates) == Spread(gsapAnimation, updates)

\* updateProperty( key, value ): the attribute written
updateProperty(gsapAnimation, k, v) ==
    updateAnimation(gsapAnimation,
        PArrayOf(<<Entry(KStr("properties"),
                         SpreadWith(Prop(gsapAnimation, "properties"), k, v))>>))

\* updateTiming( key, value ): the attribute written
updateTiming(gsapAnimation, k, v) ==
    updateAnimation(gsapAnimation,
        PArrayOf(<<Entry(KStr("timing"),
                         SpreadWith(Prop(gsapAnimation, "timing"), k, v))>>))

\* a || b
JsOr(a, b) == IF JsTruthy(a) THEN a ELSE b

\* a timeline object with every field of TimelineConfig the claim names
StoredTimeline ==
    PArrayOf(<<
        Entry(KStr("isTimeline"), PBool(TRUE)),
        Entry(KStr("timelineId"), PStr(S_abc)),
        Entry(KStr("timelineName"), PStr(<<"m", "a", "i", "n">>)),
        Entry(KStr("parentTimelineId"), PStr(<<"p", "1">>)),
        Entry(KStr("timelinePosition"), PStr(<<"c", "u", "s", "t", "o", "m">>)),
        Entry(KStr("customPosition"), PStr(<<"+", "=", "1">>))>>)

\* updateTimeline( key, value ) of GSAPAnimationPanel: the attribute written
updateTimeline(gsapAnimation, k, v) ==
    LET Rebuilt(timeline) ==
            SpreadWith(
                PArrayOf(<<
                    Entry(KStr("isTimeline"),
                          JsOr(Prop(timeline, "isTimeline"), PBool(FALSE))),
                    Entry(KStr("timelineId"),
                          JsOr(Prop(timeline, "timelineId"), PStr(<<>>))),
                    Entry(KStr("timelineName"),
                          JsOr(Prop(timeline, "timelineName"), PStr(<<>>))),
                    Entry(KStr("timelinePosition"),
                          JsOr(Prop(timeline, "timelinePosition"),
                               PStr(<<"s", "t", "a", "r", "t">>)))>>),
                k, v)
    IN updateAnimation(gsapAnimation,
            PArrayOf(<<Entry(KStr("timeline"),
                             Rebuilt(Prop(gsapAnimation, "timeline")))>>))

\* the updater of EventHandlers.createTimelineUpdater: the attribute written
createTimelineUpdater(gsapAnimation, k, v) ==
    updateAnimation(gsapAnimation,
        PArrayOf(<<Entry(KStr("timeline"),
                         SpreadWith(Prop(gsapAnimation, "timeline"), k, v))>>))

\* ActionButtonsSection.getDefaultConfig: the literal of
\* AnimationPanel.getDefaultAnimationConfig
ActionButtons_getDefaultConfig == getDefaultAnimationConfig

\* the handler of ActionButtonsSection.createResetHandler, with the
\* updateAnimationConfig of AnimationPanel as onChange: the attribute written
ResetHandler(animationConfig) ==
    updateAnimation(animationConfig, ActionButtons_getDefaultConfig)

\* the attributes stored with a block: none, and configurations with some
\* fields absent
StoredAttributes ==
    {Absent, PArray,
     PArrayOf(<<Entry(KStr("enabled"), PBool(TRUE))>>),
     PArrayOf(<<Entry(KStr("enabled"), PBool(TRUE)),
                Entry(KStr("timing"),
                      PArrayOf(<<Entry(KStr("duration"), PInt(2))>>))>>),
     PArrayOf(<<Entry(KStr("type"), PStr(S_fromTo)),
                Entry(KStr("properties"),
                      PArrayOf(<<Entry(KStr("y"), PStr(S_0px)),
                                 Entry(KStr("scale"), PInt(2))>>))>>),
     BuildData(BaseConfig),
     BuildData(FullConfig),
     Spread(BuildData(FullConfig),
            PArrayOf(<<Entry(KStr("timeline"), StoredTimeline)>>))}

PanelPropertyKeys == {"x", "opacity"}
PanelPropertyValues == {PInt(0), PStr(<<"1", "0", "p", "x">>)}
PanelTimingKeys == {"duration", "yoyo"}
PanelTimingValues == {PInt(3), PBool(TRUE)}

InitPanel ==
    /\ pc = "stored"
    /\ impl \in Panels
    /\ key = "none"
    /\ raw = Nil
    /\ out = Nil
    /\ prev = Nil
    /\ arg \in StoredAttributes
    /\ result = Nil
    /\ NoFrontend

\* the panel function runs on the stored attribute
RenderPanel ==
    /\ pc = "stored"
    /\ pc' = "rendered"
    /\ out' = EffectiveConfig(impl, arg)
    /\ UNCHANGED <<impl, key, raw, prev, arg, result>>
    /\ UNCHANGED frontendVars

\* updateProperty( k, v ) of the panel rendered last, and the render that
\* follows setAttributes; an undefined gsapAnimation has no properties to read
UpdateProperty(k, v) ==
    /\ pc \in {"rendered", "updatedProperty", "updatedTiming"}
    /\ out # Absent
    /\ pc' = "updatedProperty"
    /\ key' = k
    /\ raw' = v
    /\ prev' = out
    /\ arg' = updateProperty(out, k, v)
    /\ out' = EffectiveConfig(impl, updateProperty(out, k, v))
    /\ UNCHANGED <<impl, result>>
    /\ UNCHANGED frontendVars

\* updateTiming( k, v ) of the panel rendered last, and the render that
\* follows setAttributes
UpdateTiming(k, v) ==
    /\ pc \in {"rendered", "updatedProperty", "updatedTiming"}
    /\ out # Absent
    /\ pc' = "updatedTiming"
    /\ key' = k
    /\ raw' = v
    /\ prev' = out
    /\ arg' = updateTiming(out, k, v)
    /\ out' = EffectiveConfig(impl, updateTiming(out, k, v))
    /\ UNCHANGED <<impl, result>>
    /\ UNCHANGED frontendVars

\* updateTimeline( k, v ) of the panel rendered last, and the render that
\* follows setAttributes
UpdateTimeline(k, v) ==
    /\ pc \in {"rendered", "updatedProperty", "updatedTiming"}
    /\ impl \in {"GSAPAnimationPanel", "EventHandlers"}
    /\ out # Absent
    /\ pc' = "updatedTimeline"
    /\ key' = k
    /\ raw' = v
    /\ prev' = out
    /\ arg' = IF impl = "GSAPAnimationPanel" THEN updateTimeline(out, k, v)
              ELSE createTimelineUpdater(out, k, v)
    /\ out' = EffectiveConfig(impl,
                  IF impl = "GSAPAnimationPanel" THEN updateTimeline(out, k, v)
                  ELSE createTimelineUpdater(out, k, v))
    /\ UNCHANGED <<impl, result>>
    /\ UNCHANGED frontendVars

\* a press on 'Reset to Defaults' in the panel rendered last, and the
\* render that follows setAttributes
ResetToDefaults ==
    /\ pc \in {"rendered", "updatedProperty", "updatedTiming"}
    /\ impl = "AnimationPanel"
    /\ JsTruthy(Prop(out, "enabled"))
    /\ pc' = "reset"
    /\ prev' = out
    /\ arg' = ResetHandler(out)
    /\ out' = EffectiveConfig(impl, ResetHandler(out))
    /\ UNCHANGED <<impl, key, raw, result>>
    /\ UNCHANGED frontendVars

PanelTimelineKeys == {"timelineName", "isTimeline"}
PanelTimelineValues == {PBool(TRUE)}

NextPanel ==
    \/ RenderPanel
    \/ \E k \in PanelTimelineKeys, v \in PanelTimelineValues : UpdateTimeline(k, v)
    \/ ResetToDefaults
    \/ \E k \in PanelPropertyKeys, v \in PanelPropertyValues : UpdateProperty(k, v)
    \/ \E k \in PanelTimingKeys, v \in PanelTimingValues : UpdateTiming(k, v)

SpecPanel == InitPanel /\ [][NextPanel]_vars

\* the objects a and b have the same keys, and the same value under every
\* key but k
SameExcept(a, b, k) ==
    /\ ObjectKeys(b) = ObjectKeys(a) \cup {k}
    /\ \A f \in ObjectKeys(a) \ {k} : Prop(b, f) = Prop(a, f)

\* C18: updateProperty(k, v) leaves every other property, the timing and
\* every other field of the configuration as they were, and updateTiming(k, v)
\* leaves every other timing field, the properties and every other field as
\* they were, after any sequence of updates.
C18_ShallowMerge ==
    /\ pc = "updatedProperty" =>
          /\ SameExcept(prev, out, "properties")
          /\ SameExcept(Prop(prev, "properties"), Prop(out, "properties"), key)
          /\ Prop(Prop(out, "properties"), key) = raw
    /\ pc = "updatedTiming" =>
          /\ SameExcept(prev, out, "timing")
          /\ SameExcept(Prop(prev, "timing"), Prop(out, "timing"), key)
          /\ Prop(Prop(out, "timing"), key) = raw

C18_Witness ==
    /\ pc = "updatedTiming"
    /\ key = "yoyo"
    /\ ObjectKeys(Prop(prev, "timing")) = {"duration"}
    /\ Prop(Prop(out, "timing"), "duration") = PInt(3)
    /\ ObjectKeys(Prop(out, "properties")) = {"x", "opacity"}

\* the fields a configuration must have
RequiredTimingFields == {"duration", "delay", "repeat", "yoyo", "ease"}

Defined(o, f) == Prop(o, f) # Absent

\* C19: whatever fields the stored configuration lacks, the configuration
\* the editor panel works with has enabled, type, trigger, properties and
\* the five timing fields defined.
C19_DefaultsComplete ==
    (pc = "rendered" /\ impl \in {"GSAPAnimationPanel", "AnimationPanel"}) =>
        /\ \A f \in {"enabled", "type", "trigger", "properties", "timing"} :
              Defined(out, f)
        /\ \A f \in RequiredTimingFields : Defined(Prop(out, "timing"), f)

(***************************************************************************)
(* FrontendAnimationController: from the configuration of an element to    *)
(* the calls made on the engine.  arg is the parsed configuration, raw the *)
(* page ([gsap, ScrollTrigger]: what window holds), result the event       *)
(* listeners of the element, out the engine calls made so far, each        *)
(* [method, vars, scrollTrigger].                                          *)
(***************************************************************************)
\* String( v ) for a number or a string
JsString(v) ==
    CASE v.t = "int" -> IntToStr(v.i)
      [] v.t = "float" -> FloatToStr(v.f)
      [] v.t = "string" -> v.s
      [] OTHER -> <<"o", "b", "j", "e", "c", "t">>

\* FrontendAnimationController.prepareAnimationProperties, for a config
\* whose timing is an object
Controller_prepareAnimationProperties(config) ==
    LET Skipped(v, texts) == v = Absent \/ JsString(v) \in texts
        Collect(timing, animProps) ==
            Present(<<
                Entry(KStr("duration"), JsOr(Prop(timing, "duration"), PFloat(5, -1))),
                Entry(KStr("delay"), JsOr(Prop(timing, "delay"), PInt(0))),
                Entry(KStr("ease"), JsOr(Prop(timing, "ease"), PStr(S_power1_out))),
                Entry(KStr("repeat"),
                      IF JsTruthy(Prop(timing, "repeat"))
                      THEN Prop(timing, "repeat") ELSE Absent),
                Entry(KStr("yoyo"),
                      IF JsTruthy(Prop(timing, "yoyo"))
                      THEN Prop(timing, "yoyo") ELSE Absent),
                Entry(KStr("x"),
                      IF Prop(animProps, "x") = PStr(<<>>) THEN Absent
                      ELSE Prop(animProps, "x")),
                Entry(KStr("y"),
                      IF Prop(animProps, "y") = PStr(<<>>) THEN Absent
                      ELSE Prop(animProps, "y")),
                Entry(KStr("rotation"),
                      IF Skipped(Prop(animProps, "rotation"), {<<>>, <<"0">>})
                      THEN Absent ELSE Prop(animProps, "rotation")),
                Entry(KStr("scale"),
                      IF Skipped(Prop(animProps, "scale"), {<<>>, <<"1">>})
                      THEN Absent ELSE Prop(animProps, "scale")),
                Entry(KStr("opacity"), Prop(animProps, "opacity"))>>)
    IN Collect(Prop(config, "timing"), Prop(config, "properties"))

\* FrontendAnimationController.hasAnimationProperties
hasAnimationProperties(properties) ==
    \E i \in 1..Len(properties) :
        properties[i].k.name \in {"x", "y", "rotation", "scale", "opacity"}

EngineCall(method, properties, scrollTrigger) ==
    [method |-> method, vars |-> properties, scrollTrigger |-> scrollTrigger]

\* FrontendAnimationController.createPageLoadAnimation: the calls made
createPageLoadAnimation(config, properties) ==
    IF Prop(config, "type").s \in {S_to, S_from, S_fromTo, S_set}
    THEN <<EngineCall(Prop(config, "type").s, properties, FALSE)>>
    ELSE <<>>

\* FrontendAnimationController.createScrollAnimation: the calls made
createScrollAnimation(config, properties, page) ==
    IF ~page.ScrollTrigger THEN createPageLoadAnimation(config, properties)
    ELSE IF Prop(config, "type").s \in {S_to, S_from}
    THEN <<EngineCall(Prop(config, "type").s, properties, TRUE)>>
    ELSE <<>>

\* the listener createClickAnimation adds: the calls it makes
ClickListener(config, properties) ==
    IF Prop(config, "type").s \in {S_to, S_from}
    THEN <<EngineCall(Prop(config, "type").s, properties, FALSE)>>
    ELSE <<>>

\* the listeners createHoverAnimation adds: the calls they make
MouseEnterListener(config, properties) ==
    <<EngineCall(S_to, properties, FALSE)>>

MouseLeaveListener(config, properties) ==
    <<EngineCall(S_to,
        <<Entry(KStr("x"), PInt(0)), Entry(KStr("y"), PInt(0)),
          Entry(KStr("rotation"), PInt(0)), Entry(KStr("scale"), PInt(1)),
          Entry(KStr("opacity"), PInt(1)),
          Entry(KStr("duration"), Get(PArrayOf(properties), "duration")),
          Entry(KStr("ease"), Get(PArrayOf(properties), "ease"))>>,
        FALSE)>>

\* createAnimation reaches executeAnimationByTrigger
Executes(config, page) ==
    /\ isValidConfig(config)
    /\ page.gsap
    /\ ~Nullish(Prop(config, "timing"))
    /\ hasAnimationProperties(Controller_prepareAnimationProperties(config))

\* FrontendAnimationController.executeAnimationByTrigger: the calls made at
\* once
executeAnimationByTrigger(config, properties, page) ==
    CASE Prop(config, "trigger") = PStr(S_pageload) ->
            createPageLoadAnimation(config, properties)
      [] Prop(config, "trigger") = PStr(S_scroll) ->
            createScrollAnimation(config, properties, page)
      [] OTHER -> <<>>

\* FrontendAnimationController.executeAnimationByTrigger: the events the
\* element listens to afterwards
ListenersAdded(config) ==
    CASE Prop(config, "trigger") = PStr(S_click) -> {"click"}
      [] Prop(config, "trigger") = PStr(S_hover) -> {"mouseenter", "mouseleave"}
      [] OTHER -> {}

\* the calls a listener of the element makes on an event
HandleEvent(config, properties, event) ==
    CASE event = "click" -> ClickListener(config, properties)
      [] event = "mouseenter" -> MouseEnterListener(config, properties)
      [] event = "mouseleave" -> MouseLeaveListener(config, properties)

ControllerTypes == {S_to, S_from, S_fromTo, S_set}
ControllerTriggers == {S_pageload, S_scroll, S_click, S_hover}

\* the configurations of the elements of the page
ControllerConfigs ==
    {wp_json_encode(BuildData([BaseConfig EXCEPT
            !.enabled = PBool(en), !.type = PStr(ty), !.trigger = PStr(tr),
            !.properties = pr])) :
        en \in BOOLEAN, ty \in ControllerTypes \cup {S_bogus},
        tr \in ControllerTriggers,
        pr \in {PArrayOf(<<Entry(KStr("opacity"), PFloat(5, -1))>>),
                PArrayOf(<<Entry(KStr("x"), PStr(<<"1", "0", "0", "p", "x">>)),
                           Entry(KStr("rotation"), PInt(90))>>),
                PArrayOf(<<Entry(KStr("rotation"), PInt(0))>>),
                PArray}}

DomEvents == {"scroll", "click", "mouseenter", "mouseleave"}

InitController ==
    /\ pc = "loaded"
    /\ impl = "FrontendAnimationController"
    /\ key = "none"
    /\ raw \in [gsap : BOOLEAN, ScrollTrigger : BOOLEAN]
    /\ out = <<>>
    /\ prev = Nil
    /\ arg \in ControllerConfigs
    /\ result = {}
    /\ NoFrontend

\* FrontendAnimationController.processAnimatedElement on the element
ProcessAnimatedElement ==
    /\ pc = "loaded"
    /\ pc' = "created"
    /\ out' = IF Executes(arg, raw)
              THEN executeAnimationByTrigger(
                       arg, Controller_prepareAnimationProperties(arg), raw)
              ELSE <<>>
    /\ result' = IF Executes(arg, raw) THEN ListenersAdded(arg) ELSE {}
    /\ UNCHANGED <<impl, key, raw, prev, arg>>
    /\ UNCHANGED frontendVars

\* the browser dispatches an event on the element: its listeners run
DispatchEvent(event) ==
    /\ pc = "created"
    /\ pc' = "fired"
    /\ key' = event
    /\ out' = IF event \in result
              THEN out \o HandleEvent(
                       arg, Controller_prepareAnimationProperties(arg), event)
              ELSE out
    /\ UNCHANGED <<impl, raw, prev, arg, result>>
    /\ UNCHANGED frontendVars

NextController ==
    \/ ProcessAnimatedElement
    \/ \E event \in DomEvents : DispatchEvent(event)

SpecController == InitController /\ [][NextController]_vars

\* the event on which a trigger fires; a page-load animation fires when the
\* element is processed
TriggerFired(trigger) ==
    /\ pc = "fired"
    /\ CASE trigger = S_pageload -> TRUE
         [] trigger = S_scroll -> key = "scroll"
         [] trigger = S_click -> key = "click"
         [] trigger = S_hover -> key = "mouseenter"

\* C21: for every trigger and every type, an enabled configuration with an
\* animatable property has, once its trigger has fired, made the engine
\* call of its type, whether or not ScrollTrigger is loaded.
C21_EngineCallOfConfiguredType ==
    \A tr \in ControllerTriggers : \A ty \in ControllerTypes :
        (/\ TriggerFired(tr)
         /\ raw.gsap
         /\ Prop(arg, "trigger") = PStr(tr)
         /\ Prop(arg, "type") = PStr(ty)
         /\ Prop(arg, "enabled") = PBool(TRUE)
         /\ Prop(arg, "properties") =
                PArrayOf(<<Entry(KStr("opacity"), PFloat(5, -1))>>))
        => \E i \in 1..Len(out) : out[i].method = ty

\* C21 for the page-load trigger, and for the types to and from with the
\* triggers scroll and click
C21_SupportedCombinations ==
    \A tr \in ControllerTriggers : \A ty \in ControllerTypes :
        (/\ TriggerFired(tr)
         /\ raw.gsap
         /\ Prop(arg, "trigger") = PStr(tr)
         /\ Prop(arg, "type") = PStr(ty)
         /\ Prop(arg, "enabled") = PBool(TRUE)
         /\ Prop(arg, "properties") =
                PArrayOf(<<Entry(KStr("opacity"), PFloat(5, -1))>>)
         /\ \/ tr = S_pageload
            \/ tr \in {S_scroll, S_click} /\ ty \in {S_to, S_from}
            \/ tr = S_scroll /\ ~raw.ScrollTrigger
            \/ tr = S_hover /\ ty = S_to)
        => \E i \in 1..Len(out) : out[i].method = ty

(***************************************************************************)
(* The dependency injection container.  arg is the Container object        *)
(* [bindings, singleton_bindings, singletons, resolving]; a binding is     *)
(* [kind, deps, fails, gen, serial]: a closure or a class whose            *)
(* construction resolves deps from the container (and may fail), or an     *)
(* object; gen numbers the registrations.  An instance is [serial, gen],   *)
(* gen being the registration that produced it.  out counts registrations  *)
(* and instances, key is the identifier of the last call, result what the  *)
(* last resolve returned or raised, prev the container before that call.   *)
(***************************************************************************)
Ids == {"A", "B"}

\* what an identifier can be registered with
Concretes ==
    {[kind |-> "factory", deps |-> <<>>, fails |-> FALSE],
     [kind |-> "factory", deps |-> <<"A">>, fails |-> FALSE],
     [kind |-> "factory", deps |-> <<"B">>, fails |-> FALSE],
     [kind |-> "factory", deps |-> <<>>, fails |-> TRUE],
     [kind |-> "class", deps |-> <<"B">>, fails |-> FALSE],
     [kind |-> "object", deps |-> <<>>, fails |-> FALSE]}

EmptyContainer ==
    [bindings |-> [a \in Ids |-> Nil],
     singleton_bindings |-> [a \in Ids |-> FALSE],
     singletons |-> [a \in Ids |-> Nil],
     resolving |-> {}]

\* the binding stored by bind / singleton: an object concrete is an instance
\* of its own
Binding(concrete, gen, serial) ==
    [kind |-> concrete.kind, deps |-> concrete.deps, fails |-> concrete.fails,
     gen |-> gen, serial |-> IF concrete.kind = "object" THEN serial ELSE 0]

\* Container::bind
bind(c, abstract, binding) ==
    [c EXCEPT !.bindings[abstract] = binding,
              !.singleton_bindings[abstract] = FALSE,
              !.singletons[abstract] = Nil]

\* Container::singleton
singleton(c, abstract, binding) ==
    [c EXCEPT !.bindings[abstract] = binding,
              !.singleton_bindings[abstract] = TRUE]

\* Container::is_singleton
is_singleton(c, abstract) == c.singleton_bindings[abstract]

Returned(c, n, instance) == [c |-> c, n |-> n, ret |-> instance, exc |-> "none"]
Raised(c, n, exc) == [c |-> c, n |-> n, ret |-> Nil, exc |-> exc]

RECURSIVE resolve(_, _, _)
RECURSIVE make(_, _, _)
RECURSIVE resolve_dependencies(_, _, _, _)

\* the finally block forgotten: an exception leaves the identifier in
\* $this->resolving
resolve_noFinally(c, abstract, n) ==
    LET Done(r) ==
            IF r.exc # "none" THEN r
            ELSE Returned(
                    [r.c EXCEPT
                        !.singletons[abstract] =
                            IF is_singleton(r.c, abstract) THEN r.ret ELSE @,
                        !.resolving = @ \ {abstract}],
                    r.n, r.ret)
    IN  IF abstract \in c.resolving THEN Raised(c, n, "circular_dependency")
        ELSE IF c.singletons[abstract] # Nil
        THEN Returned(c, n, c.singletons[abstract])
        ELSE Done(make([c EXCEPT !.resolving = @ \cup {abstract}], abstract, n))

\* Container::resolve: the container afterwards, the number of instances
\* made, and the instance returned or the exception raised
resolve(c, abstract, n) ==
    LET Done(r) ==
            IF r.exc # "none"
            THEN Raised([r.c EXCEPT !.resolving = @ \ {abstract}], r.n, r.exc)
            ELSE Returned(
                    [r.c EXCEPT
                        !.singletons[abstract] =
                            IF is_singleton(r.c, abstract) THEN r.ret ELSE @,
                        !.resolving = @ \ {abstract}],
                    r.n, r.ret)
    IN  IF abstract \in c.resolving THEN Raised(c, n, "circular_dependency")
        ELSE IF c.singletons[abstract] # Nil
        THEN Returned(c, n, c.singletons[abstract])
        ELSE Done(make([c EXCEPT !.resolving = @ \cup {abstract}], abstract, n))

\* Container::resolve_dependencies / resolve_dependency, and the resolve
\* calls of a closure: the dependencies from the i-th on
resolve_dependencies(c, deps, n, i) ==
    LET Rest(r) ==
            IF r.exc # "none" THEN r
            ELSE resolve_dependencies(r.c, deps, r.n, i + 1)
    IN IF i > Len(deps) THEN Returned(c, n, Nil)
       ELSE Rest(resolve(c, deps[i], n))

\* Container::make / build
make(c, abstract, n) ==
    LET Built(binding, r) ==
            IF r.exc # "none" THEN r
            ELSE IF binding.fails THEN Raised(r.c, r.n, "factory_failed")
            ELSE Returned(r.c, r.n + 1,
                          [serial |-> r.n + 1, gen |-> binding.gen])
        Made(binding) ==
            IF binding = Nil THEN Raised(c, n, "service_not_found")
            ELSE IF binding.kind = "object"
            THEN Returned(c, n, [serial |-> binding.serial, gen |-> binding.gen])
            ELSE Built(binding, resolve_dependencies(c, binding.deps, n, 1))
    IN Made(c.bindings[abstract])

InitContainer ==
    /\ pc = "idle"
    /\ impl = "Container"
    /\ key = "none"
    /\ raw = Nil
    /\ out = [registrations |-> 0, instances |-> 0]
    /\ prev = Nil
    /\ arg = EmptyContainer
    /\ result = Nil
    /\ NoFrontend

\* $container->bind( abstract, concrete )
Bind(abstract, concrete) ==
    /\ out.registrations < MaxRegistrations
    /\ pc' = "bound"
    /\ key' = abstract
    /\ prev' = arg
    /\ arg' = bind(arg, abstract,
                   Binding(concrete, out.registrations + 1, out.instances + 1))
    /\ out' = [registrations |-> out.registrations + 1,
               instances |-> IF concrete.kind = "object"
                             THEN out.instances + 1 ELSE out.instances]
    /\ UNCHANGED <<impl, raw, result>>
    /\ UNCHANGED frontendVars

\* $container->singleton( abstract, concrete )
Singleton(abstract, concrete) ==
    /\ out.registrations < MaxRegistrations
    /\ pc' = "bound"
    /\ key' = abstract
    /\ prev' = arg
    /\ arg' = singleton(arg, abstract,
                   Binding(concrete, out.registrations + 1, out.instances + 1))
    /\ out' = [registrations |-> out.registrations + 1,
               instances |-> IF concrete.kind = "object"
                             THEN out.instances + 1 ELSE out.instances]
    /\ UNCHANGED <<impl, raw, result>>
    /\ UNCHANGED frontendVars

\* $container->resolve( abstract ), also reached through get( abstract )
Resolve(abstract) ==
    /\ out.instances < MaxInstances
    /\ pc' = "resolved"
    /\ key' = abstract
    /\ prev' = arg
    /\ arg' = resolve(arg, abstract, out.instances).c
    /\ result' = [ret |-> resolve(arg, abstract, out.instances).ret,
                  exc |-> resolve(arg, abstract, out.instances).exc]
    /\ out' = [out EXCEPT !.instances = resolve(arg, abstract, out.instances).n]
    /\ UNCHANGED <<impl, raw>>
    /\ UNCHANGED frontendVars

NextContainer ==
    \/ \E abstract \in Ids, concrete \in Concretes : Bind(abstract, concrete)
    \/ \E abstract \in Ids, concrete \in Concretes : Singleton(abstract, concrete)
    \/ \E abstract \in Ids : Resolve(abstract)

SpecContainer == InitContainer /\ [][NextContainer]_vars

\* C22: what resolve returns for an identifier is an instance produced by
\* the binding the identifier has now, also when the identifier was
\* registered again after it had been resolved; for an identifier
\* registered with singleton() it is the one instance kept for it.
C22_ResolvesCurrentBinding ==
    (pc = "resolved" /\ result.exc = "none") =>
        /\ result.ret.gen = arg.bindings[key].gen
        /\ is_singleton(arg, key) => arg.singletons[key] = result.ret

\* C22, first half: a singleton that has been resolved and not registered
\* again resolves to the same instance
C22_SingletonIsStable ==
    (/\ pc = "resolved"
     /\ result.exc = "none"
     /\ prev.singletons[key] # Nil
     /\ prev.singletons[key].gen = prev.bindings[key].gen)
    => result.ret = prev.singletons[key]

\* the identifiers reached from a through the dependencies of bindings
RECURSIVE ReachedFrom(_, _, _)
ReachedFrom(c, S, k) ==
    IF k = 0 THEN S
    ELSE ReachedFrom(c,
            S \cup {d \in Ids : \E a \in S :
                        /\ c.bindings[a] # Nil
                        /\ \E i \in 1..Len(c.bindings[a].deps) :
                              c.bindings[a].deps[i] = d},
            k - 1)

DependsOn(c, a) ==
    ReachedFrom(c,
        {d \in Ids : /\ c.bindings[a] # Nil
                     /\ \E i \in 1..Len(c.bindings[a].deps) :
                           c.bindings[a].deps[i] = d},
        Cardinality(Ids))

\* C23: resolve raises the circular-dependency exception only for an
\* identifier whose dependencies lead back into a cycle, it never returns
\* normally for an identifier that depends on itself with nothing kept, and
\* whenever it returns or raises the in-progress set is what it was before
\* the call, so that an identifier registered anew after a failure resolves.
C23_CircularDetectedAndRestored ==
    /\ arg.resolving = {}
    /\ pc = "resolved" =>
          /\ result.exc = "circular_dependency" =>
                \E d \in DependsOn(prev, key) \cup {key} : d \in DependsOn(prev, d)
          /\ (/\ key \in DependsOn(prev, key)
              /\ \A a \in Ids : prev.singletons[a] = Nil)
             => result.exc # "none"
          /\ (/\ prev.bindings[key] # Nil
              /\ prev.bindings[key].deps = <<>>
              /\ ~prev.bindings[key].fails)
             => result.exc = "none"

C23_Witness ==
    /\ pc = "resolved"
    /\ result.exc = "circular_dependency"
    /\ key \in DependsOn(prev, key)
    /\ arg.resolving = {}

\* C24: after 'Reset to Defaults' the configuration of the block is the
\* default configuration (enabled false, type to, trigger pageload, no
\* properties, the default timing) and nothing else, whatever it was before,
\* a selector or a timeline included.
C24_ResetGivesDefaults ==
    pc = "reset" =>
        /\ ObjectKeys(arg) = ObjectKeys(ActionButtons_getDefaultConfig)
        /\ \A f \in ObjectKeys(ActionButtons_getDefaultConfig) :
              Prop(arg, f) = Prop(ActionButtons_getDefaultConfig, f)

\* C24 for the fields of the default configuration
C24_ResetRestoresDefaultFields ==
    pc = "reset" =>
        \A f \in ObjectKeys(ActionButtons_getDefaultConfig) :
            Prop(arg, f) = Prop(ActionButtons_getDefaultConfig, f)

\* the fields of a timeline object
TimelineFields ==
    {"isTimeline", "timelineId", "timelineName", "parentTimelineId",
     "timelinePosition", "customPosition"}

\* C30: updateTimeline(key, value) leaves every other field of the timeline
\* object (isTimeline, timelineId, timelineName, parentTimelineId,
\* timelinePosition, customPosition) and every field outside the timeline
\* as they were, for every key and every timeline before.
C30_TimelineFrame ==
    pc = "updatedTimeline" =>
        /\ \A f \in TimelineFields \ {key} :
              Prop(Prop(out, "timeline"), f) = Prop(Prop(prev, "timeline"), f)
        /\ \A f \in ObjectKeys(prev) \ {"timeline"} : Prop(out, f) = Prop(prev, f)
        /\ Prop(Prop(out, "timeline"), key) = raw

\* C30 for the updater of EventHandlers
C30_EventHandlersTimelineFrame ==
    impl = "EventHandlers" => C30_TimelineFrame

\* C26: for every input string sanitize_css_selector returns the empty
\* string or a string of at most 200 characters that validate_css_selector
\* accepts; taking the disallowed characters out never leaves a selector
\* that contains a denylisted pattern such as 'javascript:'.
C26_SanitizedSelectorIsValid ==
    pc = "sanitized" =>
        \/ out.s = <<>>
        \/ /\ Len(out.s) <= 200
           /\ validate_css_selector(out.s)
           /\ ~DenylistHit(out.s)

\* C26 for the length and the alphabet of the result
C26_SanitizedSelectorIsShort ==
    pc = "sanitized" =>
        /\ Len(out.s) <= 200
        /\ \A i \in 1..Len(out.s) : out.s[i] \in SECURITY_ALLOWED

(***************************************************************************)
(* One Animation_Validator instance over several validate calls.  out is   *)
(* $this->errors, prev its value before the last call, arg the data of the *)
(* last call, result what the last call returned, raw the number of calls. *)
(***************************************************************************)
MaxCalls == 3

\* validate without the assignment $this->errors = array()
validate_on_keeping(errors, data) ==
    LET After(v) ==
            [threw |-> v.threw,
             ret |-> ~v.threw /\ Empty(PArrayOf(errors \o v.errors)),
             errors |-> errors \o v.errors]
    IN After(validate(data))

\* validate( array $data ) on an instance whose $this->errors is errors:
\* the list is emptied, the checks append to it, the result is
\* empty( $this->errors )
validate_on(errors, data) ==
    LET After(v) ==
            [threw |-> v.threw,
             ret |-> ~v.threw /\ Empty(PArrayOf(v.errors)),
             errors |-> v.errors]
    IN After(validate(data))

\* get_errors() of the validator
Animation_Validator_get_errors(errors) == errors

\* the data of the calls: two valid configurations and configurations with
\* one field of the first replaced
InstanceInputs ==
    {BuildData(BaseConfig), BuildData(FullConfig)} \cup
    {BuildData([BaseConfig EXCEPT ![f] = a]) :
        f \in {"enabled", "type"}, a \in {Absent, PStr(S_bogus), PInt(5)}} \cup
    {BuildData([BaseConfig EXCEPT !.properties = a]) :
        a \in {PArray,
                PArrayOf(<<Entry(KStr("bogus"), PInt(1))>>),
                PArrayOf(<<Entry(KStr("scale"), PStr(S_abc)),
                           Entry(KInt(0), PInt(5))>>)}}

\* new Animation_Validator()
InitInstance ==
    /\ pc = "constructed"
    /\ out = <<>>
    /\ prev = <<>>
    /\ arg = Nil
    /\ result = Nil
    /\ raw = 0
    /\ impl = "Animation_Validator"
    /\ key = "none"
    /\ NoFrontend

\* $validator->validate( data )
ValidateCall(data) ==
    /\ raw < MaxCalls
    /\ pc' = "called"
    /\ raw' = raw + 1
    /\ arg' = data
    /\ prev' = out
    /\ LET Store(v) ==
               /\ out' = v.errors
               /\ result' = [ret |-> v.ret, threw |-> v.threw]
       IN Store(validate_on(out, data))
    /\ UNCHANGED <<impl, key>>
    /\ UNCHANGED frontendVars

NextInstance == \E data \in InstanceInputs : ValidateCall(data)

SpecInstance == InitInstance /\ [][NextInstance]_vars

\* C27: on one Animation_Validator, after any sequence of validate calls,
\* get_errors() is exactly the error list of the most recent call (what a
\* new validator reports for the same data), and validate returned true
\* exactly when get_errors() is empty.
C27_ErrorsOfLastCall ==
    pc = "called" =>
        /\ Animation_Validator_get_errors(out) = validate(arg).errors
        /\ ~result.threw =>
              (result.ret <=> Animation_Validator_get_errors(out) = <<>>)

\* a call that returns true after a call that left errors
C27_Witness ==
    /\ pc = "called"
    /\ raw >= 2
    /\ prev # <<>>
    /\ result.ret
    /\ Animation_Validator_get_errors(out) = <<>>

\* a call that leaves errors after a call that left other errors
C27_WitnessOtherErrors ==
    /\ pc = "called"
    /\ raw >= 2
    /\ prev # <<>>
    /\ out # <<>>
    /\ out # prev

\* the sanitized value is the raw value, or the raw number with the default
\* unit appended
Preserved(k, value, sanitized) ==
    \/ SameValue(value, sanitized)
    \/ /\ is_numeric(value)
       /\ sanitized.t = "float"
       /\ FloatCmp(ToFloat(value), sanitized.f) = 0
    \/ /\ is_numeric(value)
       /\ k \in {"x", "y", "width", "height"}
       /\ sanitized = PStr(ToStr(value) \o S_px)

\* C28: every value Animation_Validator accepts for a key is preserved by
\* the sanitizer of Property_Validator: it comes back unchanged, or as the
\* bare number with the default unit appended, and is never replaced by a
\* fallback default.
C28_AcceptedIsPreserved ==
    pc = "accepted" => Preserved(key, raw, out)

\* C28 for the keys other than the colors
C28_AcceptedNonColorIsPreserved ==
    (pc = "accepted" /\ key \notin {"backgroundColor", "color"})
        => Preserved(key, raw, out)

\* C29: the sanitizers of FromTo_Animation_Strategy and
\* Set_Animation_Strategy return what
\* Property_Validator::sanitize_animation_property_value returns, for every
\* key in {x, y, rotation, scale, opacity, backgroundColor, color, width,
\* height} and every raw value.
C29_SanitizersAgree ==
    (pc = "compared" /\ key \in PropertyKeys) =>
        /\ prev = out
        /\ result = out

\* C29 for the two strategies
C29_StrategiesAgree ==
    (pc = "compared" /\ key \in PropertyKeys) => prev = result

(***************************************************************************)
(* The preview component (animation-preview.tsx) on AnimationService.      *)
(* arg is the config prop, key the state of the block element ("attached", *)
(* "detached": no parent node, "missing": not in the document), out the    *)
(* timeline of the last preview (styled: it has written inline styles on   *)
(* the element that are still there), result the component state           *)
(* [isPlaying, error], pc the position of the last playPreview call, raw   *)
(* the number of previews started and prev the number of calls of the      *)
(* caller's onComplete.                                                    *)
(***************************************************************************)
MaxPreviews == 3

NoTimeline ==
    [state |-> "none", stored |-> FALSE, notified |-> FALSE, styled |-> FALSE,
     onComplete |-> "none", onInterrupt |-> "none"]

\* gsap.timeline( { ..., paused: true } )
buildTimeline == [NoTimeline EXCEPT !.state = "paused"]

\* timeline.eventCallback( type, callback ): the engine keeps one callback
\* for each type
eventCallback(timeline, type, callback) == [timeline EXCEPT ![type] = callback]

\* AnimationService.configureTimelineCallbacks
configureTimelineCallbacks(timeline) ==
    eventCallback(eventCallback(timeline, "onComplete", "options.onComplete"),
                  "onInterrupt", "options.onComplete")

\* AnimationService.executeTimeline, up to the await
executeTimeline(timeline) ==
    [eventCallback(timeline, "onComplete", "resolve")
        EXCEPT !.state = "playing", !.styled = TRUE]

\* what createPreview catches before the timeline plays: validateElement,
\* validateConfig, and the TypeError of reading config.timing.duration or
\* config.properties.x of undefined
PreviewError(element, config) ==
    IF element = "detached" THEN "Invalid element provided for animation"
    ELSE IF ~JsTruthy(Prop(config, "enabled")) THEN "Animation is not enabled"
    ELSE IF ~JsTruthy(Prop(config, "type")) \/ ~JsTruthy(Prop(config, "trigger"))
    THEN "Animation configuration is incomplete"
    ELSE IF Nullish(Prop(config, "timing")) \/ Nullish(Prop(config, "properties"))
    THEN "TypeError"
    ELSE "none"

\* the timeline createPreview leaves playing
PreviewTimeline ==
    [executeTimeline(configureTimelineCallbacks(buildTimeline))
        EXCEPT !.stored = TRUE]

\* the callback the engine calls, run on the component and the promise
Invoke(callback, component, position, calls, timeline) ==
    CASE callback = "options.onComplete" ->
            [component |-> [component EXCEPT !.isPlaying = FALSE],
             position |-> position, calls |-> calls + 1,
             timeline |-> [timeline EXCEPT !.notified = TRUE]]
      [] callback = "resolve" ->
            [component |-> component, position |-> "resolved", calls |-> calls,
             timeline |-> timeline]
      [] OTHER ->
            [component |-> component, position |-> position, calls |-> calls,
             timeline |-> timeline]

\* AnimationService.stopPreview on the component: killAnimation on the
\* active animation (the engine calls onInterrupt when the timeline was
\* playing) and removeActiveAnimation
ServiceStopPreview(component, position, calls, timeline) ==
    IF ~timeline.stored
    THEN [component |-> component, position |-> position, calls |-> calls,
          timeline |-> timeline]
    ELSE IF timeline.state = "playing"
    THEN Invoke(timeline.onInterrupt, component, position, calls,
                [timeline EXCEPT !.state = "killed", !.stored = FALSE])
    ELSE [component |-> component, position |-> position, calls |-> calls,
          timeline |-> [timeline EXCEPT !.stored = FALSE]]

\* AnimationService.restoreOriginalState: gsap.set( element, { clearProps } )
restoreOriginalState(r) == [r EXCEPT !.timeline.styled = FALSE]

ComponentConfigs ==
    {DEFAULT_ANIMATION_CONFIG,
     BuildData(BaseConfig),
     BuildData(FullConfig),
     BuildData([BaseConfig EXCEPT !.trigger = Absent]),
     BuildData([BaseConfig EXCEPT !.properties = Absent]),
     BuildData([FullConfig EXCEPT !.timing = Absent])}

ElementStates == {"attached", "detached", "missing"}

InitPreview ==
    /\ pc = "idle"
    /\ impl = "AnimationPreview"
    /\ arg \in ComponentConfigs
    /\ key \in ElementStates
    /\ out = NoTimeline
    /\ result = [isPlaying |-> FALSE, error |-> "none"]
    /\ raw = 0
    /\ prev = 0
    /\ NoFrontend

\* playPreview, up to the await on the timeline or to its return
PlayPreview ==
    /\ JsTruthy(Prop(arg, "enabled"))
    /\ ~result.isPlaying
    /\ raw < MaxPreviews
    /\ raw' = raw + 1
    /\ IF key = "missing"
       THEN /\ result' = [isPlaying |-> FALSE,
                          error |-> "Block element not found for preview"]
            /\ pc' = "returned"
            /\ out' = out
       ELSE IF PreviewError(key, arg) # "none"
       THEN /\ result' = [isPlaying |-> FALSE, error |-> PreviewError(key, arg)]
            /\ pc' = "returned"
            /\ out' = out
       ELSE /\ result' = [isPlaying |-> TRUE, error |-> "none"]
            /\ pc' = "awaiting"
            /\ out' = PreviewTimeline
    /\ UNCHANGED <<impl, arg, key, prev>>
    /\ UNCHANGED frontendVars

\* the engine plays the timeline to its end and calls the onComplete
\* callback it holds
TimelineCompletes ==
    /\ out.state = "playing"
    /\ LET Done(r) ==
               /\ result' = r.component
               /\ pc' = r.position
               /\ prev' = r.calls
               /\ out' = r.timeline
       IN Done(Invoke(out.onComplete, result, pc, prev,
                      [out EXCEPT !.state = "completed"]))
    /\ UNCHANGED <<impl, arg, key, raw>>
    /\ UNCHANGED frontendVars

\* the awaits of createPreview and playPreview continue after resolve
ResumeAfterAwait ==
    /\ pc = "resolved"
    /\ pc' = "returned"
    /\ UNCHANGED <<impl, arg, key, raw, out, prev, result>>
    /\ UNCHANGED frontendVars

\* stopPreview of the component
ComponentStopPreview ==
    /\ result.isPlaying
    /\ LET Done(r) ==
               /\ result' = [r.component EXCEPT !.isPlaying = FALSE]
               /\ pc' = r.position
               /\ prev' = r.calls
               /\ out' = r.timeline
       IN Done(ServiceStopPreview(result, pc, prev, out))
    /\ UNCHANGED <<impl, arg, key, raw>>
    /\ UNCHANGED frontendVars

\* resetElement of the component
ComponentResetElement ==
    /\ LET Done(r) ==
               /\ result' = [r.component EXCEPT !.isPlaying = FALSE]
               /\ pc' = r.position
               /\ prev' = r.calls
               /\ out' = r.timeline
       IN Done(IF key = "missing"
               THEN [component |-> result, position |-> pc, calls |-> prev,
                     timeline |-> out]
               ELSE restoreOriginalState(
                        ServiceStopPreview(result, pc, prev, out)))
    /\ UNCHANGED <<impl, arg, key, raw>>
    /\ UNCHANGED frontendVars

\* the config prop changes: clearErrorsOnConfigChange
ConfigChanges(config) ==
    /\ config # arg
    /\ arg' = config
    /\ result' = [result EXCEPT !.error = "none"]
    /\ UNCHANGED <<pc, impl, key, raw, out, prev>>
    /\ UNCHANGED frontendVars

NextPreview ==
    \/ PlayPreview
    \/ TimelineCompletes
    \/ ResumeAfterAwait
    \/ ComponentStopPreview
    \/ ComponentResetElement
    \/ \E config \in ComponentConfigs : ConfigChanges(config)

\* the engine finishes a playing timeline and a resolved promise continues
SpecPreview ==
    /\ InitPreview
    /\ [][NextPreview]_vars
    /\ WF_vars(TimelineCompletes)
    /\ WF_vars(ResumeAfterAwait)

\* C25: whenever a preview timeline started by createPreview has run to
\* completion, the caller's onComplete callback is eventually called for
\* it, and the 'playing' state of the preview component returns to false.
C25_CompletionNotifiesCaller ==
    (out.state = "completed") ~> (out.notified /\ ~result.isPlaying)

\* C25 for the promise of createPreview: a completed timeline lets
\* playPreview return
C25_CompletionResolvesPromise ==
    (out.state = "completed" /\ pc = "resolved") ~> (pc # "resolved")

\* C25 for an interrupted preview: stopping a playing timeline calls the
\* caller's onComplete and leaves 'playing' false
C25_InterruptNotifiesCaller ==
    out.state = "killed" => (out.notified /\ ~result.isPlaying)

====
